---- MODULE Spec2Model ----
(***************************************************************************)
(* KUBE platform backend: the REST handlers of the farm, park, alert,      *)
(* dashboard and auth controllers over the relational store, as a state    *)
(* machine.  A table is a sequence of rows; a row's id is its position     *)
(* (no endpoint deletes a row).                                            *)
(***************************************************************************)
EXTENDS Integers, Sequences, FiniteSets, TLC

VARIABLES
    users,          \* table User
    activities,     \* table Activity
    farms,          \* table Farm
    farmCreatedBy,  \* history: for each farm, the requester whose call inserted it
    herds,          \* table Herd
    animals,        \* table Animal
    healthEvents,   \* table HealthEvent
    alerts,         \* table Alert
    parks,          \* table Park
    wildlife,       \* table WildlifePopulation
    sightings,      \* table WildlifeSighting
    patrols,        \* table Patrol
    incidents,      \* table Incident
    landZones,      \* table LandZone
    surveys,        \* table LandSurvey
    changes,        \* table LandChange
    reports,        \* table Report
    reportPosted,   \* history: for each report, the dataSnapshot of the POST payload
    now,            \* the clock read by new Date() and Date.now()
    res,            \* the last HTTP response sent
    pending         \* requests accepted and suspended at an await

userDb == <<users, activities>>
farmDb == <<farms, farmCreatedBy, herds, animals>>
alertDb == <<alerts, now>>
parkDb == <<parks, wildlife, sightings, patrols, incidents>>
landDb == <<landZones, surveys, changes>>
reportDb == <<reports, reportPosted>>
healthDb == <<healthEvents>>

vars == <<userDb, farmDb, alertDb, parkDb, landDb, reportDb, healthDb, res, pending>>

(***************************************************************************)
(* Bounds of the model.                                                    *)
(***************************************************************************)
MaxFarms == 2
MaxHerds == 1
MaxAlerts == 1
MaxTime == 1
MaxParks == 2
MaxPatrols == 1
MaxIncidents == 1
MaxInFlight == 2
MaxUsers == 3
MaxReports == 2
MaxAnimals == 3
MaxZones == 3
MaxSurveys == 1
MaxChanges == 1
MaxNewRows == 1
MaxDashHerds == 12
MaxDashAlerts == 6
MaxAttributed == 3

(***************************************************************************)
(* JavaScript values as they arrive in a JSON body.                        *)
(***************************************************************************)
Undef == [t |-> "undefined"]
Str(s) == [t |-> "string", v |-> s]
Num(n) == [t |-> "number", v |-> n]
Arr(q) == [t |-> "array", v |-> q]
Obj(fields) == [t |-> "object", v |-> fields]

\* The truthiness the handlers test with !x and x && y.
Truthy(x) ==
    CASE x.t = "undefined" -> FALSE
      [] x.t = "string" -> x.v # ""
      [] x.t = "number" -> x.v # 0
      [] x.t = "array" -> TRUE
      [] x.t = "object" -> TRUE

\* A nullable foreign key that is not set.
NoId == 0

Ids(table) == 1..Len(table)

\* An id a client can put in a path or a body: every existing one and one that
\* names no row.
ParamIds(table) == 1..(Len(table) + 1)

(***************************************************************************)
(* Users present before any request: the administrator and two farmers.    *)
(***************************************************************************)
Hash(pw) == <<"bcrypt", pw>>

\* bcrypt.compare(password, hash)
Compare(pw, hash) == hash = Hash(pw)

\* JSON.stringify of an array of strings: the text, token by token.
RECURSIVE JsonElements(_)
JsonElements(q) ==
    IF Len(q) = 0 THEN <<>>
    ELSE IF Len(q) = 1 THEN <<q[1]>>
    ELSE <<q[1], ",">> \o JsonElements(Tail(q))

JsonStringify(q) == <<"[">> \o JsonElements(q) \o <<"]">>

\* JSON.parse of such a text: the array back.
JsonParse(text) == [i \in 1..((Len(text) - 1) \div 2) |-> text[2 * i]]

\* NULL in a column that holds JSON text, and an absent part of a response.
Null == <<>>

\* NULL in a column that holds a string.
NullStr == "<null>"

\* lastLoginAt and resolvedAt of a row that was never stamped.
NoTime == -1

UserRow(email, pw, role, status, services, businessType, companyName) ==
    [email |-> email, password |-> Hash(pw), role |-> role, status |-> status,
     services |-> services, businessType |-> businessType, companyName |-> companyName,
     lastLoginAt |-> NoTime]

SeedUsers ==
    << UserRow("admin@kube.africa", "password123", "ADMIN", "ACTIVE",
               JsonStringify(<<"KUBE_FARM", "KUBE_PARK", "KUBE_LAND">>), "B2B", "KUBE Platform"),
       UserRow("farmer@kube.africa", "password123", "FARMER", "ACTIVE",
               JsonStringify(<<"KUBE_FARM">>), "B2C", NullStr),
       UserRow("farmer2@kube.africa", "password123", "FARMER", "ACTIVE",
               JsonStringify(<<"KUBE_FARM", "KUBE_LAND">>), "B2C", NullStr) >>

\* req.user, as the auth middleware takes it from the bearer token.
Requesters == { [id |-> i, role |-> users[i].role] : i \in Ids(users) }

(***************************************************************************)
(* Responses.                                                              *)
(***************************************************************************)
NoResponse == [handler |-> "none", requester |-> NoId, code |-> 0, message |-> "",
               entity |-> "none", rows |-> {}]

Reply(handler, u, code, message, entity, rows) ==
    [handler |-> handler, requester |-> u.id, code |-> code, message |-> message,
     entity |-> entity, rows |-> rows]

\* The persistence layer refuses a row whose foreign key names no parent row.
\* A store without foreign key constraints.
ForeignKeyOkUnchecked(id, table) == TRUE

ForeignKeyOk(id, table) == id \in Ids(table)

(***************************************************************************)
(* Farm controller.                                                        *)
(***************************************************************************)
FarmsWhereUnscoped(u) == Ids(farms)

\* where: { ...(req.user?.role !== 'ADMIN' && { ownerId: userId }) }
FarmsWhere(u) == { f \in Ids(farms) : u.role # "ADMIN" => farms[f].ownerId = u.id }

getFarms(u, fail) ==
    /\ res' = IF fail
              THEN Reply("getFarms", u, 500, "Failed to get farms", "farm", {})
              ELSE Reply("getFarms", u, 200, "", "farm", FarmsWhere(u))
    /\ UNCHANGED <<userDb, farmDb, alertDb, parkDb, landDb, reportDb, healthDb, pending>>

getFarmById(u, id, fail) ==
    /\ res' = IF fail
              THEN Reply("getFarmById", u, 500, "Failed to get farm", "farm", {})
              ELSE IF id \notin Ids(farms)
              THEN Reply("getFarmById", u, 404, "Farm not found", "farm", {})
              ELSE Reply("getFarmById", u, 200, "", "farm", {id})
    /\ UNCHANGED <<userDb, farmDb, alertDb, parkDb, landDb, reportDb, healthDb, pending>>

\* A request whose body names a user id in an attribution field keeps that
\* field out of the row: the handlers destructure only the fields they list.
AttributionFields == {"ownerId", "managerId", "generatedById", "userId"}

\* The id a body claims in an attribution field, read instead of req.user.
BodyUserId(u, body) ==
    IF \E f \in AttributionFields : f \in DOMAIN body /\ body[f].t = "number"
    THEN (body[CHOOSE f \in AttributionFields : f \in DOMAIN body /\ body[f].t = "number"]).v
    ELSE u.id

\* const ownerId = req.user?.id (likewise managerId, userId): the id of the
\* authenticated requester, whatever the body holds.
RequestUserId(u, body) == u.id

\* A complete body, and the bodies that differ from it in one field.
FarmBody == [name |-> Str("Valley Farm"), location |-> Str("Bugesera"),
             latitude |-> Num(2), longitude |-> Num(30)]

FarmBodies ==
    {FarmBody,
     [FarmBody EXCEPT !.name = Undef], [FarmBody EXCEPT !.location = Undef],
     [FarmBody EXCEPT !.latitude = Undef], [FarmBody EXCEPT !.longitude = Undef],
     [FarmBody EXCEPT !.latitude = Num(0)], [FarmBody EXCEPT !.longitude = Num(0)]}

createFarm(u, body, fail) ==
    IF ~Truthy(body.name) \/ ~Truthy(body.location)
        \/ ~Truthy(body.latitude) \/ ~Truthy(body.longitude)
    THEN /\ res' = Reply("createFarm", u, 400, "Please provide all required fields", "farm", {})
         /\ UNCHANGED <<userDb, farmDb, alertDb, parkDb, landDb, reportDb, healthDb, pending>>
    ELSE IF fail
    THEN /\ res' = Reply("createFarm", u, 500, "Failed to create farm", "farm", {})
         /\ UNCHANGED <<userDb, farmDb, alertDb, parkDb, landDb, reportDb, healthDb, pending>>
    ELSE /\ Len(farms) < MaxFarms
         /\ farms' = Append(farms, [ownerId |-> RequestUserId(u, body)])
         /\ farmCreatedBy' = Append(farmCreatedBy, u.id)
         /\ res' = Reply("createFarm", u, 201, "Farm created successfully", "farm", {Len(farms) + 1})
         /\ UNCHANGED <<userDb, herds, animals, alertDb, parkDb, landDb, reportDb, healthDb, pending>>

\* where: { farmId }
HerdsWhere(farmId) == { h \in Ids(herds) : herds[h].farmId = farmId }

getHerds(u, farmId, fail) ==
    /\ res' = IF fail
              THEN Reply("getHerds", u, 500, "Failed to get herds", "herd", {})
              ELSE Reply("getHerds", u, 200, "", "herd", HerdsWhere(farmId))
    /\ UNCHANGED <<userDb, farmDb, alertDb, parkDb, landDb, reportDb, healthDb, pending>>

HerdBody == [name |-> Str("Main Dairy Herd"), animalType |-> Str("cattle"), totalCount |-> Num(5)]

HerdBodies ==
    {HerdBody,
     [HerdBody EXCEPT !.name = Undef], [HerdBody EXCEPT !.animalType = Undef],
     [HerdBody EXCEPT !.totalCount = Undef], [HerdBody EXCEPT !.totalCount = Num(0)]}

createHerd(u, farmId, body, fail) ==
    IF ~Truthy(body.name) \/ ~Truthy(body.animalType) \/ ~Truthy(body.totalCount)
    THEN /\ res' = Reply("createHerd", u, 400, "Please provide all required fields", "herd", {})
         /\ UNCHANGED <<userDb, farmDb, alertDb, parkDb, landDb, reportDb, healthDb, pending>>
    ELSE IF fail \/ ~ForeignKeyOk(farmId, farms)
    THEN /\ res' = Reply("createHerd", u, 500, "Failed to create herd", "herd", {})
         /\ UNCHANGED <<userDb, farmDb, alertDb, parkDb, landDb, reportDb, healthDb, pending>>
    ELSE /\ Len(herds) < MaxHerds
         /\ herds' = Append(herds, [farmId |-> farmId])
         /\ res' = Reply("createHerd", u, 201, "Herd created successfully", "herd", {Len(herds) + 1})
         /\ UNCHANGED <<userDb, farms, farmCreatedBy, animals, alertDb, parkDb, landDb, reportDb, healthDb, pending>>

(***************************************************************************)
(* Alert controller.                                                       *)
(***************************************************************************)
AlertStatuses == {"NEW", "ACKNOWLEDGED", "IN_PROGRESS", "RESOLVED"}

\* The status of an alert inserted without one.
DefaultAlertStatus == "NEW"

\* where: { ...(req.user?.role !== 'ADMIN' &&
\*            { OR: [{ assignedToId: userId }, { farm: { ownerId: userId } }] }) }
\* (no status, type, severity or module filter in the query string)
AlertsWhere(u) ==
    { a \in Ids(alerts) :
        u.role # "ADMIN" =>
            \/ alerts[a].assignedToId = u.id
            \/ (alerts[a].farmId # NoId /\ farms[alerts[a].farmId].ownerId = u.id) }

getAlerts(u, fail) ==
    /\ res' = IF fail
              THEN Reply("getAlerts", u, 500, "Failed to get alerts", "alert", {})
              ELSE Reply("getAlerts", u, 200, "", "alert", AlertsWhere(u))
    /\ UNCHANGED <<userDb, farmDb, alertDb, parkDb, landDb, reportDb, healthDb, pending>>

getAlertById(u, id, fail) ==
    /\ res' = IF fail
              THEN Reply("getAlertById", u, 500, "Failed to get alert", "alert", {})
              ELSE IF id \notin Ids(alerts)
              THEN Reply("getAlertById", u, 404, "Alert not found", "alert", {})
              ELSE Reply("getAlertById", u, 200, "", "alert", {id})
    /\ UNCHANGED <<userDb, farmDb, alertDb, parkDb, landDb, reportDb, healthDb, pending>>

\* The row prisma.alert.create inserts: the fields of the body that the model
\* keeps, and the schema's defaults for the rest.
NewAlert(module, farmId) ==
    [status |-> DefaultAlertStatus, module |-> module, farmId |-> farmId,
     assignedToId |-> NoId, resolvedBy |-> NoId, resolvedAt |-> NoTime]

AlertBody == [type |-> Str("HEALTH"), severity |-> Str("CRITICAL"), title |-> Str("Fever"),
              message |-> Str("Fever detected"), module |-> Str("farm"), farmId |-> Undef]

AlertBodies ==
    {AlertBody,
     [AlertBody EXCEPT !.type = Undef], [AlertBody EXCEPT !.severity = Undef],
     [AlertBody EXCEPT !.title = Undef], [AlertBody EXCEPT !.message = Undef],
     [AlertBody EXCEPT !.module = Undef]}
    \cup {[AlertBody EXCEPT !.farmId = Num(f)] : f \in ParamIds(farms)}

createAlert(u, body, fail) ==
    IF ~Truthy(body.type) \/ ~Truthy(body.severity) \/ ~Truthy(body.title)
        \/ ~Truthy(body.message) \/ ~Truthy(body.module)
    THEN /\ res' = Reply("createAlert", u, 400, "Please provide all required fields", "alert", {})
         /\ UNCHANGED <<userDb, farmDb, alertDb, parkDb, landDb, reportDb, healthDb, pending>>
    ELSE IF fail \/ (body.farmId # Undef /\ ~ForeignKeyOk(body.farmId.v, farms))
    THEN /\ res' = Reply("createAlert", u, 500, "Failed to create alert", "alert", {})
         /\ UNCHANGED <<userDb, farmDb, alertDb, parkDb, landDb, reportDb, healthDb, pending>>
    ELSE /\ Len(alerts) < MaxAlerts
         /\ alerts' = Append(alerts,
                NewAlert(body.module.v, IF body.farmId = Undef THEN NoId ELSE body.farmId.v))
         /\ res' = Reply("createAlert", u, 201, "Alert created successfully", "alert", {Len(alerts) + 1})
         /\ UNCHANGED <<userDb, farmDb, now, parkDb, landDb, reportDb, healthDb, pending>>

\* An update that wrote the status and never the resolver stamps.
StatusDataNeverStamp(alert, u, status) == [alert EXCEPT !.status = status]

StatusDataAlwaysStamp(alert, u, status) ==
    [alert EXCEPT !.status = status, !.resolvedBy = u.id, !.resolvedAt = now]

\* data: { status, actionTaken,
\*         ...(status === 'RESOLVED' && { resolvedBy: req.user?.id, resolvedAt: new Date() }) }
StatusData(alert, u, status) ==
    IF status = "RESOLVED"
    THEN [alert EXCEPT !.status = status, !.resolvedBy = u.id, !.resolvedAt = now]
    ELSE [alert EXCEPT !.status = status]

StatusBodies == [status : {Undef} \cup {Str(s) : s \in AlertStatuses}]

updateAlertStatus(u, id, body, fail) ==
    IF ~Truthy(body.status)
    THEN /\ res' = Reply("updateAlertStatus", u, 400, "Status is required", "alert", {})
         /\ UNCHANGED <<userDb, farmDb, alertDb, parkDb, landDb, reportDb, healthDb, pending>>
    ELSE IF fail \/ id \notin Ids(alerts)
    THEN /\ res' = Reply("updateAlertStatus", u, 500, "Failed to update alert", "alert", {})
         /\ UNCHANGED <<userDb, farmDb, alertDb, parkDb, landDb, reportDb, healthDb, pending>>
    ELSE /\ alerts' = [alerts EXCEPT ![id] = StatusData(alerts[id], u, body.status.v)]
         /\ res' = Reply("updateAlertStatus", u, 200, "Alert updated successfully", "alert", {id})
         /\ UNCHANGED <<userDb, farmDb, now, parkDb, landDb, reportDb, healthDb, pending>>

\* An assignment that reopened the alert and wiped its resolver stamps.
AssignDataUnstamped(alert, assignedToId) ==
    [alert EXCEPT !.assignedToId = assignedToId, !.status = "ACKNOWLEDGED",
                  !.resolvedBy = NoId, !.resolvedAt = NoTime]

AssignDataKeepStatus(alert, assignedToId) == [alert EXCEPT !.assignedToId = assignedToId]

AssignDataInProgress(alert, assignedToId) ==
    [alert EXCEPT !.assignedToId = assignedToId, !.status = "IN_PROGRESS"]

\* A store whose update carried a version check: the write of a call is
\* refused while a call that assigns someone else is still in flight.
AssignDataVersioned(alert, assignedToId) ==
    IF \E other \in pending : other.assignedToId # assignedToId
    THEN alert
    ELSE [alert EXCEPT !.assignedToId = assignedToId, !.status = "ACKNOWLEDGED"]

\* data: { assignedToId, status: 'ACKNOWLEDGED' }
AssignData(alert, assignedToId) ==
    [alert EXCEPT !.assignedToId = assignedToId, !.status = "ACKNOWLEDGED"]

AssignBodies == [assignedToId : {Undef} \cup {Num(i) : i \in ParamIds(users)}]

assignAlert(u, id, body, fail) ==
    IF ~Truthy(body.assignedToId)
    THEN /\ res' = Reply("assignAlert", u, 400, "User ID is required", "alert", {})
         /\ UNCHANGED <<userDb, farmDb, alertDb, parkDb, landDb, reportDb, healthDb, pending>>
    ELSE IF fail \/ id \notin Ids(alerts) \/ ~ForeignKeyOk(body.assignedToId.v, users)
    THEN /\ res' = Reply("assignAlert", u, 500, "Failed to assign alert", "alert", {})
         /\ UNCHANGED <<userDb, farmDb, alertDb, parkDb, landDb, reportDb, healthDb, pending>>
    ELSE /\ alerts' = [alerts EXCEPT ![id] = AssignData(alerts[id], body.assignedToId.v)]
         /\ res' = Reply("assignAlert", u, 200, "Alert assigned successfully", "alert", {id})
         /\ UNCHANGED <<userDb, farmDb, now, parkDb, landDb, reportDb, healthDb, pending>>

\* Time passes between requests.
Tick ==
    /\ now < MaxTime
    /\ now' = now + 1
    /\ UNCHANGED <<userDb, farmDb, alerts, parkDb, landDb, reportDb, healthDb, res, pending>>

(***************************************************************************)
(* The farm module: farms and herds created and read by the seeded users.  *)
(***************************************************************************)
Init ==
    /\ users = SeedUsers
    /\ activities = <<>>
    /\ farms = <<>>
    /\ farmCreatedBy = <<>>
    /\ herds = <<>>
    /\ animals = <<>>
    /\ healthEvents = <<>>
    /\ alerts = <<>>
    /\ parks = <<>>
    /\ wildlife = <<>>
    /\ sightings = <<>>
    /\ patrols = <<>>
    /\ incidents = <<>>
    /\ landZones = <<>>
    /\ surveys = <<>>
    /\ changes = <<>>
    /\ reports = <<>>
    /\ reportPosted = <<>>
    /\ now = 1
    /\ res = NoResponse
    /\ pending = {}

GetFarms == \E u \in Requesters, fail \in BOOLEAN : getFarms(u, fail)

GetFarmById == \E u \in Requesters, id \in ParamIds(farms), fail \in BOOLEAN : getFarmById(u, id, fail)

CreateFarm == \E u \in Requesters, body \in FarmBodies, fail \in BOOLEAN : createFarm(u, body, fail)

GetHerds == \E u \in Requesters, farmId \in ParamIds(farms), fail \in BOOLEAN : getHerds(u, farmId, fail)

CreateHerd ==
    \E u \in Requesters, farmId \in ParamIds(farms), body \in HerdBodies, fail \in BOOLEAN :
        createHerd(u, farmId, body, fail)

Next ==
    \/ GetFarms
    \/ GetFarmById
    \/ CreateFarm
    \/ GetHerds
    \/ CreateHerd

Spec == Init /\ [][Next]_vars

(***************************************************************************)
(* The authorization predicate of the data model: a row is the requester's *)
(* when they own it directly or through its parent chain.                  *)
(***************************************************************************)
OwnRow(uid, entity, id) ==
    CASE entity = "farm" -> farms[id].ownerId = uid
      [] entity = "herd" -> farms[herds[id].farmId].ownerId = uid
      [] OTHER -> FALSE

\* C1: a successful read returns to a non-admin requester only rows that are
\* theirs, and to an administrator asking for the farm list every farm.
C1_ReadsAreScoped ==
    (res.code = 200 /\ res.handler \in {"getFarms", "getFarmById", "getHerds"}) =>
        IF users[res.requester].role = "ADMIN"
        THEN res.handler = "getFarms" => res.rows = Ids(farms)
        ELSE \A id \in res.rows : OwnRow(res.requester, res.entity, id)

\* C2: a farm inserted by createFarm for requester A is in no later farm list
\* of another non-admin requester and in every later farm list of an
\* administrator.
C2_FarmListIsolation ==
    (res.handler = "getFarms" /\ res.code = 200) =>
        \A f \in Ids(farms) :
            /\ (users[res.requester].role # "ADMIN" /\ res.requester # farmCreatedBy[f])
                    => f \notin res.rows
            /\ users[res.requester].role = "ADMIN" => f \in res.rows

\* Farmer 3 lists farms after farmer 2 and farmer 3 have each created one.
C2_Witness ==
    /\ res.handler = "getFarms" /\ res.code = 200 /\ res.requester = 3
    /\ \E f, g \in Ids(farms) : farmCreatedBy[f] = 2 /\ farmCreatedBy[g] = 3 /\ res.rows = {g}

(***************************************************************************)
(* The alert lifecycle: one alert, as createAlert leaves it, moved and     *)
(* assigned by the seeded users while time passes.                         *)
(***************************************************************************)
InitAlert ==
    /\ users = SeedUsers
    /\ activities = <<>>
    /\ farms = <<>>
    /\ farmCreatedBy = <<>>
    /\ herds = <<>>
    /\ animals = <<>>
    /\ healthEvents = <<>>
    /\ alerts = <<NewAlert("farm", NoId)>>
    /\ parks = <<>>
    /\ wildlife = <<>>
    /\ sightings = <<>>
    /\ patrols = <<>>
    /\ incidents = <<>>
    /\ landZones = <<>>
    /\ surveys = <<>>
    /\ changes = <<>>
    /\ reports = <<>>
    /\ reportPosted = <<>>
    /\ now = 0
    /\ res = NoResponse
    /\ pending = {}

UpdateAlertStatus ==
    \E u \in Requesters, id \in ParamIds(alerts), body \in StatusBodies, fail \in BOOLEAN :
        updateAlertStatus(u, id, body, fail)

AssignAlert ==
    \E u \in Requesters, id \in ParamIds(alerts), body \in AssignBodies, fail \in BOOLEAN :
        assignAlert(u, id, body, fail)

NextAlert ==
    \/ UpdateAlertStatus
    \/ AssignAlert
    \/ Tick

SpecAlert == InitAlert /\ [][NextAlert]_vars

\* C5: a successful assignAlert leaves the alert ACKNOWLEDGED and assigned to
\* the user id of the body, whatever its status was before.
C5_AssignForcesAcknowledged ==
    [][\A u \in Requesters, id \in ParamIds(alerts), body \in AssignBodies, fail \in BOOLEAN :
          (assignAlert(u, id, body, fail) /\ res'.code = 200) =>
              /\ alerts'[id].status = "ACKNOWLEDGED"
              /\ alerts'[id].assignedToId = body.assignedToId.v]_vars

\* An alert that was resolved earlier has just been assigned to user 3.
C5_Witness ==
    /\ res.handler = "assignAlert" /\ res.code = 200
    /\ alerts[1].resolvedAt # NoTime
    /\ alerts[1].status = "ACKNOWLEDGED" /\ alerts[1].assignedToId = 3

\* C6: updateAlertStatus to RESOLVED stamps the requester and the current
\* time; to any other status it leaves both stamps as they were.
C6_OnlyResolveStamps ==
    [][\A u \in Requesters, id \in ParamIds(alerts), body \in StatusBodies, fail \in BOOLEAN :
          (updateAlertStatus(u, id, body, fail) /\ res'.code = 200) =>
              IF body.status.v = "RESOLVED"
              THEN alerts'[id].resolvedBy = u.id /\ alerts'[id].resolvedAt = now
              ELSE /\ alerts'[id].resolvedBy = alerts[id].resolvedBy
                   /\ alerts'[id].resolvedAt = alerts[id].resolvedAt]_vars

\* User 2 has just resolved the alert at time 1, after user 3 had resolved it
\* at time 0.
C6_Witness ==
    /\ res.handler = "updateAlertStatus" /\ res.code = 200 /\ res.requester = 2
    /\ alerts[1].status = "RESOLVED" /\ alerts[1].resolvedBy = 2
    /\ alerts[1].resolvedAt = 1 /\ now = 1

Rank(status) ==
    CASE status = "NEW" -> 0
      [] status = "ACKNOWLEDGED" -> 1
      [] status = "IN_PROGRESS" -> 2
      [] status = "RESOLVED" -> 3

ParksWhere(u) == { p \in Ids(parks) : u.role # "ADMIN" => parks[p].managerId = u.id }

getParks(u, fail) ==
    /\ res' = IF fail
              THEN Reply("getParks", u, 500, "Failed to get parks", "park", {})
              ELSE Reply("getParks", u, 200, "", "park", ParksWhere(u))
    /\ UNCHANGED <<userDb, farmDb, alertDb, parkDb, landDb, reportDb, healthDb, pending>>

ParkBody == [name |-> Str("Akagera"), parkType |-> Str("national"), location |-> Str("Eastern Province"),
             latitude |-> Num(2), longitude |-> Num(30)]

ParkBodies ==
    {ParkBody,
     [ParkBody EXCEPT !.name = Undef], [ParkBody EXCEPT !.parkType = Undef],
     [ParkBody EXCEPT !.location = Undef],
     [ParkBody EXCEPT !.latitude = Undef], [ParkBody EXCEPT !.longitude = Undef],
     [ParkBody EXCEPT !.latitude = Num(0)], [ParkBody EXCEPT !.longitude = Num(0)]}

createPark(u, body, fail) ==
    IF ~Truthy(body.name) \/ ~Truthy(body.parkType) \/ ~Truthy(body.location)
        \/ ~Truthy(body.latitude) \/ ~Truthy(body.longitude)
    THEN /\ res' = Reply("createPark", u, 400, "Please provide all required fields", "park", {})
         /\ UNCHANGED <<userDb, farmDb, alertDb, parkDb, landDb, reportDb, healthDb, pending>>
    ELSE IF fail
    THEN /\ res' = Reply("createPark", u, 500, "Failed to create park", "park", {})
         /\ UNCHANGED <<userDb, farmDb, alertDb, parkDb, landDb, reportDb, healthDb, pending>>
    ELSE /\ Len(parks) < MaxParks
         /\ parks' = Append(parks, [managerId |-> RequestUserId(u, body)])
         /\ res' = Reply("createPark", u, 201, "Park created successfully", "park", {Len(parks) + 1})
         /\ UNCHANGED <<userDb, farmDb, alertDb, wildlife, sightings, patrols, incidents, landDb, reportDb, healthDb, pending>>

\* The status of a patrol inserted without one.
DefaultPatrolStatus == "SCHEDULED"

PatrolBody == [name |-> Str("Night patrol"), patrolType |-> Str("foot"),
               scheduledStart |-> Str("2026-01-01"), scheduledEnd |-> Str("2026-01-02")]

PatrolBodies ==
    {PatrolBody,
     [PatrolBody EXCEPT !.name = Undef], [PatrolBody EXCEPT !.patrolType = Undef],
     [PatrolBody EXCEPT !.scheduledStart = Undef], [PatrolBody EXCEPT !.scheduledEnd = Undef]}

createPatrol(u, parkId, body, fail) ==
    IF ~Truthy(body.name) \/ ~Truthy(body.patrolType)
        \/ ~Truthy(body.scheduledStart) \/ ~Truthy(body.scheduledEnd)
    THEN /\ res' = Reply("createPatrol", u, 400, "Please provide all required fields", "patrol", {})
         /\ UNCHANGED <<userDb, farmDb, alertDb, parkDb, landDb, reportDb, healthDb, pending>>
    ELSE IF fail \/ ~ForeignKeyOk(parkId, parks)
    THEN /\ res' = Reply("createPatrol", u, 500, "Failed to create patrol", "patrol", {})
         /\ UNCHANGED <<userDb, farmDb, alertDb, parkDb, landDb, reportDb, healthDb, pending>>
    ELSE /\ Len(patrols) < MaxPatrols
         /\ patrols' = Append(patrols, [parkId |-> parkId, status |-> DefaultPatrolStatus])
         /\ res' = Reply("createPatrol", u, 201, "Patrol created successfully", "patrol", {Len(patrols) + 1})
         /\ UNCHANGED <<userDb, farmDb, alertDb, parks, wildlife, sightings, incidents, landDb, reportDb, healthDb, pending>>

IncidentBody == [type |-> Str("poaching"), severity |-> Str("high"), title |-> Str("Snare found"),
                 latitude |-> Num(2), longitude |-> Num(30)]

IncidentBodies ==
    {IncidentBody,
     [IncidentBody EXCEPT !.type = Undef], [IncidentBody EXCEPT !.severity = Undef],
     [IncidentBody EXCEPT !.title = Undef],
     [IncidentBody EXCEPT !.latitude = Undef], [IncidentBody EXCEPT !.longitude = Undef],
     [IncidentBody EXCEPT !.latitude = Num(0)], [IncidentBody EXCEPT !.longitude = Num(0)]}

createIncident(u, parkId, body, fail) ==
    IF ~Truthy(body.type) \/ ~Truthy(body.severity) \/ ~Truthy(body.title)
        \/ ~Truthy(body.latitude) \/ ~Truthy(body.longitude)
    THEN /\ res' = Reply("createIncident", u, 400, "Please provide all required fields", "incident", {})
         /\ UNCHANGED <<userDb, farmDb, alertDb, parkDb, landDb, reportDb, healthDb, pending>>
    ELSE IF fail \/ ~ForeignKeyOk(parkId, parks)
    THEN /\ res' = Reply("createIncident", u, 500, "Failed to report incident", "incident", {})
         /\ UNCHANGED <<userDb, farmDb, alertDb, parkDb, landDb, reportDb, healthDb, pending>>
    ELSE /\ Len(incidents) < MaxIncidents
         /\ incidents' = Append(incidents, [parkId |-> parkId, status |-> "reported", reportedAt |-> now])
         /\ res' = Reply("createIncident", u, 201, "Incident reported successfully", "incident",
                         {Len(incidents) + 1})
         /\ UNCHANGED <<userDb, farmDb, alertDb, parks, wildlife, sightings, patrols, landDb, reportDb, healthDb, pending>>

(***************************************************************************)
(* Dashboard controller.                                                   *)
(***************************************************************************)
\* orderBy key desc, take n: the n rows of the set with the largest key (of
\* two rows with the same key, the one inserted later first).
\* A query that sorted ascending: the oldest rows first.
TakeAsc(set, key, n) ==
    { x \in set :
        Cardinality({ y \in set : key[y] < key[x] \/ (key[y] = key[x] /\ y < x) }) < n }

TakeDesc(set, key, n) ==
    { x \in set :
        Cardinality({ y \in set : key[y] > key[x] \/ (key[y] = key[x] /\ y > x) }) < n }

RECURSIVE SumOver(_, _)
SumOver(set, f) ==
    IF set = {} THEN 0
    ELSE LET x == CHOOSE y \in set : TRUE IN f[x] + SumOver(set \ {x}, f)

OverviewActivitiesTake == 10

\* The results of the eight queries of getOverviewStats.
OverviewReads(u) ==
    LET isAdmin == u.role = "ADMIN"
    IN [farms |-> Cardinality({ f \in Ids(farms) : ~isAdmin => farms[f].ownerId = u.id }),
        herds |-> Cardinality({ h \in Ids(herds) :
                      ~isAdmin => farms[herds[h].farmId].ownerId = u.id }),
        animals |-> Cardinality({ a \in Ids(animals) :
                        ~isAdmin => farms[herds[animals[a].herdId].farmId].ownerId = u.id }),
        parks |-> Cardinality({ p \in Ids(parks) : ~isAdmin => parks[p].managerId = u.id }),
        wildlife |-> Cardinality({ w \in Ids(wildlife) :
                         ~isAdmin => parks[wildlife[w].parkId].managerId = u.id }),
        landZones |-> Len(landZones),
        activeAlerts |-> Cardinality({ a \in Ids(alerts) :
                             /\ alerts[a].status # "RESOLVED"
                             /\ ~isAdmin => alerts[a].assignedToId = u.id }),
        recentActivities |->
            TakeDesc({ x \in Ids(activities) : ~isAdmin => activities[x].userId = u.id },
                     [x \in Ids(activities) |-> activities[x].timestamp], OverviewActivitiesTake)]

OverviewResponse(u, reads) ==
    [handler |-> "getOverviewStats", requester |-> u.id, code |-> 200, message |-> "",
     entity |-> "activity", rows |-> reads.recentActivities,
     stats |-> [farms |-> reads.farms, herds |-> reads.herds, animals |-> reads.animals,
                parks |-> reads.parks, wildlife |-> reads.wildlife,
                landZones |-> reads.landZones, activeAlerts |-> reads.activeAlerts]]

getOverviewStats(u, fail) ==
    /\ res' = IF fail
              THEN Reply("getOverviewStats", u, 500, "Failed to get overview statistics", "activity", {})
              ELSE OverviewResponse(u, OverviewReads(u))
    /\ UNCHANGED <<userDb, farmDb, alertDb, parkDb, landDb, reportDb, healthDb, pending>>

ParkIncidentsTake == 5
ParkPopulationsTake == 10
CensusWindowDays == 30

\* The results of the six queries of getParkDashboard.
ParkDashboardReads(u) ==
    LET isAdmin == u.role = "ADMIN"
        recentSightings == { g \in Ids(sightings) : sightings[g].timestamp >= now - CensusWindowDays }
    IN [parks |-> Cardinality({ p \in Ids(parks) : ~isAdmin => parks[p].managerId = u.id }),
        wildlifeSpecies |->
            Cardinality({ w \in Ids(wildlife) : ~isAdmin => parks[wildlife[w].parkId].managerId = u.id }),
        activePatrols |->
            Cardinality({ t \in Ids(patrols) :
                /\ patrols[t].status \in {"SCHEDULED", "IN_PROGRESS"}
                /\ ~isAdmin => parks[patrols[t].parkId].managerId = u.id }),
        recentIncidents |->
            TakeDesc({ i \in Ids(incidents) :
                          /\ incidents[i].status # "resolved"
                          /\ ~isAdmin => parks[incidents[i].parkId].managerId = u.id },
                     [i \in Ids(incidents) |-> incidents[i].reportedAt], ParkIncidentsTake),
        wildlifePopulations |->
            TakeDesc({ w \in Ids(wildlife) : ~isAdmin => parks[wildlife[w].parkId].managerId = u.id },
                     [w \in Ids(wildlife) |-> wildlife[w].estimatedCount], ParkPopulationsTake),
        censusData |->
            [ w \in { sightings[g].populationId : g \in recentSightings } |->
                SumOver({ g \in recentSightings : sightings[g].populationId = w },
                        [g \in Ids(sightings) |-> sightings[g].count]) ]]

ParkDashboardResponse(u, reads) ==
    [handler |-> "getParkDashboard", requester |-> u.id, code |-> 200, message |-> "",
     entity |-> "park", rows |-> {},
     stats |-> [parks |-> reads.parks, wildlifeSpecies |-> reads.wildlifeSpecies,
                activePatrols |-> reads.activePatrols,
                incidentsCount |-> Cardinality(reads.recentIncidents)],
     recentIncidents |-> reads.recentIncidents,
     wildlifePopulations |-> reads.wildlifePopulations,
     censusData |-> reads.censusData]

getParkDashboard(u, fail) ==
    /\ res' = IF fail
              THEN Reply("getParkDashboard", u, 500, "Failed to get park dashboard data", "park", {})
              ELSE ParkDashboardResponse(u, ParkDashboardReads(u))
    /\ UNCHANGED <<userDb, farmDb, alertDb, parkDb, landDb, reportDb, healthDb, pending>>

(***************************************************************************)
(* The overview beside the alert endpoints: one farm of user 2, one park   *)
(* of user 3, and alerts created, assigned and moved by the seeded users.  *)
(***************************************************************************)
InitOverview ==
    /\ users = SeedUsers
    /\ activities = <<[userId |-> 2, timestamp |-> 0]>>
    /\ farms = <<[ownerId |-> 2]>>
    /\ farmCreatedBy = <<2>>
    /\ herds = <<[farmId |-> 1]>>
    /\ animals = <<[herdId |-> 1, status |-> "HEALTHY"]>>
    /\ healthEvents = <<>>
    /\ alerts = <<>>
    /\ parks = <<[managerId |-> 3]>>
    /\ wildlife = <<[parkId |-> 1, estimatedCount |-> 120]>>
    /\ sightings = <<>>
    /\ patrols = <<>>
    /\ incidents = <<>>
    /\ landZones = <<[degradationLevel |-> 20]>>
    /\ surveys = <<>>
    /\ changes = <<>>
    /\ reports = <<>>
    /\ reportPosted = <<>>
    /\ now = 0
    /\ res = NoResponse
    /\ pending = {}

CreateAlert == \E u \in Requesters, body \in AlertBodies, fail \in BOOLEAN : createAlert(u, body, fail)

GetAlerts == \E u \in Requesters, fail \in BOOLEAN : getAlerts(u, fail)

GetAlertById == \E u \in Requesters, id \in ParamIds(alerts), fail \in BOOLEAN : getAlertById(u, id, fail)

GetOverviewStats == \E u \in Requesters, fail \in BOOLEAN : getOverviewStats(u, fail)

NextOverview ==
    \/ CreateAlert
    \/ UpdateAlertStatus
    \/ AssignAlert
    \/ GetAlerts
    \/ GetAlertById
    \/ GetOverviewStats

SpecOverview == InitOverview /\ [][NextOverview]_vars

\* C4: the overview counts cover the rows the requester sees through the
\* module endpoints: its farm count the farms of getFarms, its park count the
\* parks of getParks, its unresolved-alert count the alerts of getAlerts whose
\* status is not RESOLVED.
C4_OverviewCountsMatchModules ==
    (res.handler = "getOverviewStats" /\ res.code = 200) =>
        LET u == [id |-> res.requester, role |-> users[res.requester].role] IN
        /\ res.stats.farms = Cardinality(FarmsWhere(u))
        /\ res.stats.parks = Cardinality(ParksWhere(u))
        /\ res.stats.activeAlerts =
              Cardinality({ a \in AlertsWhere(u) : alerts[a].status # "RESOLVED" })

(***************************************************************************)
(* The park module: a park of user 2 with one population and its           *)
(* sightings; parks, patrols and incidents are added by the seeded users.  *)
(***************************************************************************)
InitPark ==
    /\ users = SeedUsers
    /\ activities = <<>>
    /\ farms = <<>>
    /\ farmCreatedBy = <<>>
    /\ herds = <<>>
    /\ animals = <<>>
    /\ healthEvents = <<>>
    /\ alerts = <<>>
    /\ parks = <<[managerId |-> 2]>>
    /\ wildlife = <<[parkId |-> 1, estimatedCount |-> 120]>>
    /\ sightings = <<[populationId |-> 1, count |-> 4, timestamp |-> 35],
                     [populationId |-> 1, count |-> 3, timestamp |-> 38],
                     [populationId |-> 1, count |-> 9, timestamp |-> 5]>>
    /\ patrols = <<>>
    /\ incidents = <<>>
    /\ landZones = <<>>
    /\ surveys = <<>>
    /\ changes = <<>>
    /\ reports = <<>>
    /\ reportPosted = <<>>
    /\ now = 40
    /\ res = NoResponse
    /\ pending = {}

GetParks == \E u \in Requesters, fail \in BOOLEAN : getParks(u, fail)

CreatePark == \E u \in Requesters, body \in ParkBodies, fail \in BOOLEAN : createPark(u, body, fail)

CreatePatrol ==
    \E u \in Requesters, parkId \in ParamIds(parks), body \in PatrolBodies, fail \in BOOLEAN :
        createPatrol(u, parkId, body, fail)

CreateIncident ==
    \E u \in Requesters, parkId \in ParamIds(parks), body \in IncidentBodies, fail \in BOOLEAN :
        createIncident(u, parkId, body, fail)

GetParkDashboard == \E u \in Requesters, fail \in BOOLEAN : getParkDashboard(u, fail)

NextPark ==
    \/ GetParks
    \/ CreatePark
    \/ CreatePatrol
    \/ CreateIncident
    \/ GetParkDashboard

SpecPark == InitPark /\ [][NextPark]_vars

\* C3: every part of the park dashboard answered to a non-admin requester is
\* computed from rows of parks that requester manages: the counts, the
\* incidents, the populations and the populations of the 30-day sighting sums.
C3_ParkDashboardIsScoped ==
    (res.handler = "getParkDashboard" /\ res.code = 200 /\ users[res.requester].role # "ADMIN") =>
        LET mine == { p \in Ids(parks) : parks[p].managerId = res.requester } IN
        /\ res.stats.parks = Cardinality(mine)
        /\ res.stats.wildlifeSpecies = Cardinality({ w \in Ids(wildlife) : wildlife[w].parkId \in mine })
        /\ res.stats.activePatrols <= Cardinality({ t \in Ids(patrols) : patrols[t].parkId \in mine })
        /\ \A i \in res.recentIncidents : incidents[i].parkId \in mine
        /\ \A w \in res.wildlifePopulations : wildlife[w].parkId \in mine
        /\ \A w \in DOMAIN res.censusData : wildlife[w].parkId \in mine

(***************************************************************************)
(* assignAlert as the event loop runs it: the handler runs up to           *)
(* `await prisma.alert.update(...)`, is suspended there while other        *)
(* requests run, and resumes when the store has executed the statement.    *)
(* A suspended call holds its closure: req.user, req.params.id and the     *)
(* assignedToId of the body.  Two suspended calls with the same closure    *)
(* are indistinguishable.                                                  *)
(***************************************************************************)
AssignCall(u, id, assignedToId) ==
    [handler |-> "assignAlert", user |-> u, id |-> id, assignedToId |-> assignedToId]

assignAlertReceive(u, id, body) ==
    IF ~Truthy(body.assignedToId)
    THEN /\ res' = Reply("assignAlert", u, 400, "User ID is required", "alert", {})
         /\ UNCHANGED <<userDb, farmDb, alertDb, parkDb, landDb, reportDb, healthDb, pending>>
    ELSE /\ Cardinality(pending) < MaxInFlight
         /\ AssignCall(u, id, body.assignedToId.v) \notin pending
         /\ pending' = pending \cup {AssignCall(u, id, body.assignedToId.v)}
         /\ UNCHANGED <<userDb, farmDb, alertDb, parkDb, landDb, reportDb, healthDb, res>>

\* The store executes UPDATE ... WHERE id = :id as one statement: there is no
\* version column and no condition on the row's current content.
assignAlertResume(call, fail) ==
    /\ call \in pending
    /\ pending' = pending \ {call}
    /\ IF fail \/ call.id \notin Ids(alerts) \/ ~ForeignKeyOk(call.assignedToId, users)
       THEN /\ res' = Reply("assignAlert", call.user, 500, "Failed to assign alert", "alert", {})
            /\ UNCHANGED <<userDb, farmDb, alertDb, parkDb, landDb, reportDb, healthDb>>
       ELSE /\ alerts' = [alerts EXCEPT ![call.id] = AssignData(alerts[call.id], call.assignedToId)]
            /\ res' = Reply("assignAlert", call.user, 200, "Alert assigned successfully",
                            "alert", {call.id})
            /\ UNCHANGED <<userDb, farmDb, now, parkDb, landDb, reportDb, healthDb>>

(***************************************************************************)
(* Concurrent assignment: the administrator and a farmer assign and move   *)
(* one alert, with up to MaxInFlight assignAlert calls in flight.          *)
(***************************************************************************)
InitRace ==
    /\ users = SubSeq(SeedUsers, 1, 2)
    /\ activities = <<>>
    /\ farms = <<>>
    /\ farmCreatedBy = <<>>
    /\ herds = <<>>
    /\ animals = <<>>
    /\ healthEvents = <<>>
    /\ alerts = <<NewAlert("farm", NoId)>>
    /\ parks = <<>>
    /\ wildlife = <<>>
    /\ sightings = <<>>
    /\ patrols = <<>>
    /\ incidents = <<>>
    /\ landZones = <<>>
    /\ surveys = <<>>
    /\ changes = <<>>
    /\ reports = <<>>
    /\ reportPosted = <<>>
    /\ now = 0
    /\ res = NoResponse
    /\ pending = {}

AssignAlertReceive ==
    \E u \in Requesters, id \in ParamIds(alerts), body \in AssignBodies :
        assignAlertReceive(u, id, body)

AssignAlertResume ==
    \E call \in pending, fail \in BOOLEAN : assignAlertResume(call, fail)

NextRace ==
    \/ AssignAlertReceive
    \/ AssignAlertResume
    \/ UpdateAlertStatus

SpecRace == InitRace /\ [][NextRace]_vars

\* C8: an assignAlert call whose update the store executes succeeds and the
\* row then holds its assignedToId with status ACKNOWLEDGED, whatever other
\* calls for the same alert are in flight and whatever they wrote since the
\* call was received: of two concurrent calls both succeed and the row keeps
\* the write applied last.
C8_ConcurrentAssignLastWriteWins ==
    [][\A call \in pending :
          (/\ assignAlertResume(call, FALSE)
           /\ call.id \in Ids(alerts)
           /\ ForeignKeyOk(call.assignedToId, users)) =>
              /\ res'.code = 200 /\ res'.rows = {call.id}
              /\ alerts'[call.id].assignedToId = call.assignedToId
              /\ alerts'[call.id].status = "ACKNOWLEDGED"]_vars

\* Two calls for alert 1 were in flight together, one assigning user 1 and one
\* user 2; the first was answered 200 and wrote user 1, the second is still
\* suspended.
C8_Witness ==
    /\ res.handler = "assignAlert" /\ res.code = 200 /\ res.rows = {1}
    /\ alerts[1].assignedToId = 1 /\ alerts[1].status = "ACKNOWLEDGED"
    /\ \E call \in pending : call.id = 1 /\ call.assignedToId = 2

(***************************************************************************)
(* Auth controller.                                                        *)
(***************************************************************************)
AuthReply(handler, code, message, detail, rows, user, token) ==
    [handler |-> handler, requester |-> NoId, code |-> code, message |-> message,
     entity |-> "user", rows |-> rows, detail |-> detail, user |-> user, token |-> token]

\* jwt.sign({ id: user.id, email: user.email, role: user.role }, ...)
Token(id, user) == <<[id |-> id, email |-> user.email, role |-> user.role]>>

\* { ...user, services: user.services ? JSON.parse(user.services) : [] }
ParsedUser(id, user) ==
    <<[id |-> id, email |-> user.email, role |-> user.role,
       businessType |-> user.businessType, companyName |-> user.companyName,
       services |-> IF user.services # Null THEN JsonParse(user.services) ELSE <<>>]>>

validServices == {"KUBE_FARM", "KUBE_PARK", "KUBE_LAND"}

InvalidServicesNone(services) == <<>>

\* if (services && Array.isArray(services))
\*     invalidServices = services.filter(s => !validServices.includes(s))
InvalidServices(services) ==
    IF Truthy(services) /\ services.t = "array"
    THEN SelectSeq(services.v, LAMBDA s : s \notin validServices)
    ELSE <<>>

\* services: services && Array.isArray(services) ? JSON.stringify(services) : null
StoredServices(services) ==
    IF Truthy(services) /\ services.t = "array" THEN JsonStringify(services.v) ELSE Null

MissingCompanyNameNever(body) == FALSE

\* if (businessType === 'B2B' && !companyName)
MissingCompanyName(body) == body.businessType = Str("B2B") /\ ~Truthy(body.companyName)

\* A column the insert leaves out takes the value the schema gives a new user.
DefaultUserStatus == "ACTIVE"

\* x || undefined and an absent optional field: the column stays NULL.
OrNull(x) == IF Truthy(x) THEN x.v ELSE NullStr

UserWithEmail(email) == { i \in Ids(users) : users[i].email = email }

RegisterBody ==
    [email |-> Str("new@kube.africa"), password |-> Str("secret"),
     firstName |-> Str("Ada"), lastName |-> Str("Keza"), role |-> Undef,
     businessType |-> Undef, companyName |-> Undef, services |-> Undef]

ServicesShapes ==
    { Undef, Str(""), Str("KUBE_FARM"), Str("KUBE_HACK"),
      Arr(<<>>), Arr(<<"KUBE_FARM">>), Arr(<<"KUBE_FARM", "KUBE_LAND">>),
      Arr(<<"KUBE_HACK">>), Arr(<<"KUBE_FARM", "KUBE_HACK">>),
      Obj(<<"KUBE_HACK">>) }

RegisterBodies ==
    { [RegisterBody EXCEPT !.email = e] :
          e \in {Undef, Str("farmer@kube.africa"), Str("new2@kube.africa")} }
    \cup { [RegisterBody EXCEPT !.password = Undef],
           [RegisterBody EXCEPT !.firstName = Undef],
           [RegisterBody EXCEPT !.lastName = Undef],
           [RegisterBody EXCEPT !.role = Str("ADMIN")],
           [RegisterBody EXCEPT !.role = Str("RANGER")],
           [RegisterBody EXCEPT !.businessType = Str("B2C")],
           [RegisterBody EXCEPT !.businessType = Str("B2B")],
           [RegisterBody EXCEPT !.businessType = Str("B2B"), !.companyName = Str("")],
           [RegisterBody EXCEPT !.businessType = Str("B2B"), !.companyName = Str("Acme")] }
    \cup { [RegisterBody EXCEPT !.services = sv] : sv \in ServicesShapes }

\* The role column filled with the default whatever the body asks for.
RegisteredRoleDefault(body) == "FARMER"

\* role: role || 'FARMER'
RegisteredRole(body) == IF Truthy(body.role) THEN body.role.v ELSE "FARMER"

register(body, fail) ==
    IF ~Truthy(body.email) \/ ~Truthy(body.password)
        \/ ~Truthy(body.firstName) \/ ~Truthy(body.lastName)
    THEN /\ res' = AuthReply("register", 400, "Please provide all required fields",
                             <<>>, {}, Null, Null)
         /\ UNCHANGED <<userDb, farmDb, alertDb, parkDb, landDb, reportDb, healthDb, pending>>
    ELSE IF Len(InvalidServices(body.services)) > 0
    THEN /\ res' = AuthReply("register", 400, "Invalid services",
                             InvalidServices(body.services), {}, Null, Null)
         /\ UNCHANGED <<userDb, farmDb, alertDb, parkDb, landDb, reportDb, healthDb, pending>>
    ELSE IF MissingCompanyName(body)
    THEN /\ res' = AuthReply("register", 400, "Company name is required for business accounts",
                             <<>>, {}, Null, Null)
         /\ UNCHANGED <<userDb, farmDb, alertDb, parkDb, landDb, reportDb, healthDb, pending>>
    ELSE IF fail
    THEN /\ res' = AuthReply("register", 500, "Registration failed", <<>>, {}, Null, Null)
         /\ UNCHANGED <<userDb, farmDb, alertDb, parkDb, landDb, reportDb, healthDb, pending>>
    ELSE IF UserWithEmail(body.email.v) # {}
    THEN /\ res' = AuthReply("register", 400, "User already exists with this email",
                             <<>>, {}, Null, Null)
         /\ UNCHANGED <<userDb, farmDb, alertDb, parkDb, landDb, reportDb, healthDb, pending>>
    ELSE LET user == [email |-> body.email.v,
                      password |-> Hash(body.password.v),
                      role |-> RegisteredRole(body),
                      status |-> DefaultUserStatus,
                      services |-> StoredServices(body.services),
                      businessType |-> OrNull(body.businessType),
                      companyName |-> OrNull(body.companyName),
                      lastLoginAt |-> NoTime]
             id == Len(users) + 1
         IN /\ Len(users) < MaxUsers
            /\ users' = Append(users, user)
            /\ res' = AuthReply("register", 201, "User registered successfully", <<>>, {id},
                                ParsedUser(id, user), Token(id, user))
            /\ UNCHANGED <<activities, farmDb, alertDb, parkDb, landDb, reportDb, healthDb, pending>>

LoginBodies ==
    [email : {Undef, Str("farmer@kube.africa"), Str("farmer2@kube.africa"),
              Str("new@kube.africa"), Str("nobody@kube.africa")},
     password : {Undef, Str("password123"), Str("secret"), Str("wrong")}]

\* What login answers, the store answering.
LoginReply(body) ==
    IF ~Truthy(body.email) \/ ~Truthy(body.password)
    THEN AuthReply("login", 400, "Please provide email and password", <<>>, {}, Null, Null)
    ELSE IF UserWithEmail(body.email.v) = {}
    THEN AuthReply("login", 401, "Invalid credentials", <<>>, {}, Null, Null)
    ELSE LET id == CHOOSE i \in UserWithEmail(body.email.v) : TRUE
             user == users[id]
         IN IF ~Compare(body.password.v, user.password)
            THEN AuthReply("login", 401, "Invalid credentials", <<>>, {}, Null, Null)
            ELSE IF user.status # "ACTIVE"
            THEN AuthReply("login", 401, "Account is not active", <<>>, {}, Null, Null)
            ELSE AuthReply("login", 200, "Login successful", <<>>, {id},
                           ParsedUser(id, user), Token(id, user))

login(body, fail) ==
    IF fail /\ Truthy(body.email) /\ Truthy(body.password)
    THEN /\ res' = AuthReply("login", 500, "Login failed", <<>>, {}, Null, Null)
         /\ UNCHANGED <<userDb, farmDb, alertDb, parkDb, landDb, reportDb, healthDb, pending>>
    ELSE /\ res' = LoginReply(body)
         /\ users' = IF LoginReply(body).code = 200
                     THEN [i \in Ids(users) |->
                              IF i \in LoginReply(body).rows
                              THEN [users[i] EXCEPT !.lastLoginAt = now]
                              ELSE users[i]]
                     ELSE users
         /\ UNCHANGED <<activities, farmDb, alertDb, parkDb, landDb, reportDb, healthDb, pending>>

(***************************************************************************)
(* Registration and login: an active farmer and a farmer whose account     *)
(* the operator has deactivated; anyone registers and logs in.             *)
(***************************************************************************)
InitAuth ==
    /\ users = <<SeedUsers[2], [SeedUsers[3] EXCEPT !.status = "INACTIVE"]>>
    /\ activities = <<>>
    /\ farms = <<>>
    /\ farmCreatedBy = <<>>
    /\ herds = <<>>
    /\ animals = <<>>
    /\ healthEvents = <<>>
    /\ alerts = <<>>
    /\ parks = <<>>
    /\ wildlife = <<>>
    /\ sightings = <<>>
    /\ patrols = <<>>
    /\ incidents = <<>>
    /\ landZones = <<>>
    /\ surveys = <<>>
    /\ changes = <<>>
    /\ reports = <<>>
    /\ reportPosted = <<>>
    /\ now = 0
    /\ res = NoResponse
    /\ pending = {}

Register == \E body \in RegisterBodies, fail \in BOOLEAN : register(body, fail)

Login == \E body \in LoginBodies, fail \in BOOLEAN : login(body, fail)

NextAuth ==
    \/ Register
    \/ Login

SpecAuth == InitAuth /\ [][NextAuth]_vars

WrongPassword(body) ==
    /\ Truthy(body.email) /\ Truthy(body.password)
    /\ \E i \in UserWithEmail(body.email.v) : ~Compare(body.password.v, users[i].password)

NotActive(body) ==
    /\ Truthy(body.email) /\ Truthy(body.password)
    /\ \E i \in UserWithEmail(body.email.v) : users[i].status # "ACTIVE"

\* C9: a login with a wrong password and a login on an account that is not
\* ACTIVE are both answered 401, and with the same response.
C9_LoginRejectionsIdentical ==
    \A wrong \in LoginBodies, inactive \in LoginBodies :
        (WrongPassword(wrong) /\ NotActive(inactive)) =>
            /\ LoginReply(wrong).code = 401
            /\ LoginReply(inactive).code = 401
            /\ LoginReply(wrong) = LoginReply(inactive)

\* The entitlements a services value of a request names.
Named(services) ==
    CASE services.t = "array" -> { services.v[i] : i \in DOMAIN services.v }
      [] services.t = "object" -> { services.v[i] : i \in DOMAIN services.v }
      [] services.t = "string" -> IF services.v = "" THEN {} ELSE {services.v}
      [] services.t = "undefined" -> {}

\* The entitlements a user row stores.
Stored(user) ==
    IF user.services = Null THEN {}
    ELSE { JsonParse(user.services)[i] : i \in DOMAIN JsonParse(user.services) }

\* C10 as stated: register answers 400 and creates no user whenever the
\* services value names an entitlement outside the valid set, whatever the
\* shape of the value.
C10_RejectsInvalidServicesOfAnyShape ==
    [][\A body \in RegisterBodies, fail \in BOOLEAN :
          (register(body, fail) /\ ~(Named(body.services) \subseteq validServices)) =>
              res'.code = 400 /\ users' = users]_vars

\* C10 as amended: register answers 400 and creates no user whenever services
\* is an array with an element outside the valid set; a services value that is
\* not an array is not validated and is stored as NULL; so no user row that
\* register creates stores an entitlement outside the valid set.
C10_RejectsInvalidServicesArrays ==
    [][\A body \in RegisterBodies, fail \in BOOLEAN :
          register(body, fail) =>
              /\ (body.services.t = "array" /\ ~(Named(body.services) \subseteq validServices))
                     => (res'.code = 400 /\ users' = users)
              /\ \A i \in Ids(users') \ Ids(users) :
                     /\ Stored(users'[i]) \subseteq validServices
                     /\ body.services.t # "array" => users'[i].services = Null]_vars

\* register has just refused an array that holds KUBE_FARM and KUBE_HACK,
\* naming KUBE_HACK, after it had created a user.
C10_Witness ==
    /\ res.handler = "register" /\ res.code = 400 /\ res.message = "Invalid services"
    /\ res.detail = <<"KUBE_HACK">>
    /\ Len(users) = 3

\* C11: register with businessType B2B and no company name answers 400 and
\* creates no user, so no user that register creates has businessType B2B
\* with an absent or empty company name.
C11_B2BNeedsCompanyName ==
    [][\A body \in RegisterBodies, fail \in BOOLEAN :
          register(body, fail) =>
              /\ (body.businessType = Str("B2B") /\ ~Truthy(body.companyName))
                     => (res'.code = 400 /\ users' = users)
              /\ \A i \in Ids(users') \ Ids(users) :
                     users'[i].businessType = "B2B"
                         => users'[i].companyName \notin {NullStr, ""}]_vars

\* register has just refused a B2B body without company name, after it had
\* created a user.
C11_Witness ==
    /\ res.handler = "register" /\ res.code = 400
    /\ res.message = "Company name is required for business accounts"
    /\ Len(users) = 3

(***************************************************************************)
(* Report controller.                                                      *)
(***************************************************************************)
\* A property of an object of a JSON body.
Field(k, val) == [k |-> k, val |-> val]

\* JSON.stringify of a string, a number, an array of strings or an object
\* whose properties are strings and numbers.
RECURSIVE JsonText(_)
JsonText(x) ==
    CASE x.t = "string" -> "\"" \o x.v \o "\""
      [] x.t = "number" -> ToString(x.v)
      [] x.t = "array" ->
            IF Len(x.v) = 0 THEN "[]"
            ELSE IF Len(x.v) = 1 THEN "[" \o JsonText(Str(x.v[1])) \o "]"
            ELSE "[" \o JsonText(Str(x.v[1])) \o ","
                     \o SubSeq(JsonText(Arr(Tail(x.v))), 2, Len(JsonText(Arr(Tail(x.v)))))
      [] x.t = "object" ->
            IF Len(x.v) = 0 THEN "{}"
            ELSE IF Len(x.v) = 1
            THEN "{" \o JsonText(Str(x.v[1].k)) \o ":" \o JsonText(x.v[1].val) \o "}"
            ELSE "{" \o JsonText(Str(x.v[1].k)) \o ":" \o JsonText(x.v[1].val) \o ","
                     \o SubSeq(JsonText(Obj(Tail(x.v))), 2, Len(JsonText(Obj(Tail(x.v)))))

\* dataSnapshot: typeof dataSnapshot === 'string' ? dataSnapshot : JSON.stringify(dataSnapshot)
SnapshotColumn(dataSnapshot) ==
    IF dataSnapshot.t = "string" THEN dataSnapshot.v ELSE JsonText(dataSnapshot)

\* where: !isAdmin ? { generatedById: userId } : undefined
ReportsWhere(u) == { r \in Ids(reports) : u.role # "ADMIN" => reports[r].generatedById = u.id }

getReports(u, fail) ==
    /\ res' = IF fail
              THEN Reply("getReports", u, 500, "Failed to get reports", "report", {})
              ELSE Reply("getReports", u, 200, "", "report", ReportsWhere(u))
    /\ UNCHANGED <<userDb, farmDb, alertDb, parkDb, landDb, reportDb, healthDb, pending>>

ReportReply(u, code, message, rows, dataSnapshot) ==
    [handler |-> "getReportById", requester |-> u.id, code |-> code, message |-> message,
     entity |-> "report", rows |-> rows, dataSnapshot |-> dataSnapshot]

\* The report as the response carries it: the columns of the row as stored.
getReportById(u, id, fail) ==
    /\ res' = IF fail
              THEN ReportReply(u, 500, "Failed to get report", {}, Undef)
              ELSE IF id \notin Ids(reports)
              THEN ReportReply(u, 404, "Report not found", {}, Undef)
              ELSE ReportReply(u, 200, "", {id}, Str(reports[id].dataSnapshot))
    /\ UNCHANGED <<userDb, farmDb, alertDb, parkDb, landDb, reportDb, healthDb, pending>>

ReportBody ==
    [title |-> Str("Q3 herd health"), type |-> Str("SUMMARY"), module |-> Str("farm"),
     dataSnapshot |-> Obj(<<Field("herds", Num(12)), Field("region", Str("East"))>>)]

SnapshotShapes ==
    { Undef, Str(""), Num(0),
      Str("twelve herds"), Str("{\"herds\":12}"),
      Num(7), Arr(<<"a", "b">>), Obj(<<>>), Obj(<<Field("herds", Num(12))>>) }

ReportBodies ==
    { ReportBody,
      [ReportBody EXCEPT !.title = Undef],
      [ReportBody EXCEPT !.type = Undef],
      [ReportBody EXCEPT !.module = Undef] }
    \cup { [ReportBody EXCEPT !.dataSnapshot = d] : d \in SnapshotShapes }

generateReport(u, body, fail) ==
    IF ~Truthy(body.title) \/ ~Truthy(body.type) \/ ~Truthy(body.module)
        \/ ~Truthy(body.dataSnapshot)
    THEN /\ res' = Reply("generateReport", u, 400, "Please provide all required fields",
                         "report", {})
         /\ UNCHANGED <<userDb, farmDb, alertDb, parkDb, landDb, reportDb, healthDb, pending>>
    ELSE IF fail
    THEN /\ res' = Reply("generateReport", u, 500, "Failed to generate report", "report", {})
         /\ UNCHANGED <<userDb, farmDb, alertDb, parkDb, landDb, reportDb, healthDb, pending>>
    ELSE /\ Len(reports) < MaxReports
         /\ reports' = Append(reports, [title |-> body.title.v, type |-> body.type.v,
                                        module |-> body.module.v,
                                        dataSnapshot |-> SnapshotColumn(body.dataSnapshot),
                                        generatedById |-> RequestUserId(u, body)])
         /\ reportPosted' = Append(reportPosted, body.dataSnapshot)
         /\ res' = Reply("generateReport", u, 201, "Report generated successfully", "report",
                         {Len(reports) + 1})
         /\ UNCHANGED <<userDb, farmDb, alertDb, parkDb, landDb, healthDb, pending>>

(***************************************************************************)
(* Reports: the administrator and a farmer generate and read reports.      *)
(***************************************************************************)
InitReport ==
    /\ users = SubSeq(SeedUsers, 1, 2)
    /\ activities = <<>>
    /\ farms = <<>>
    /\ farmCreatedBy = <<>>
    /\ herds = <<>>
    /\ animals = <<>>
    /\ healthEvents = <<>>
    /\ alerts = <<>>
    /\ parks = <<>>
    /\ wildlife = <<>>
    /\ sightings = <<>>
    /\ patrols = <<>>
    /\ incidents = <<>>
    /\ landZones = <<>>
    /\ surveys = <<>>
    /\ changes = <<>>
    /\ reports = <<>>
    /\ reportPosted = <<>>
    /\ now = 0
    /\ res = NoResponse
    /\ pending = {}

GetReports == \E u \in Requesters, fail \in BOOLEAN : getReports(u, fail)

GetReportById ==
    \E u \in Requesters, id \in ParamIds(reports), fail \in BOOLEAN : getReportById(u, id, fail)

GenerateReport ==
    \E u \in Requesters, body \in ReportBodies, fail \in BOOLEAN : generateReport(u, body, fail)

NextReport ==
    \/ GetReports
    \/ GetReportById
    \/ GenerateReport

SpecReport == InitReport /\ [][NextReport]_vars

\* C12: the dataSnapshot that getReportById returns for a report equals the
\* dataSnapshot of the POST payload that generateReport accepted for it,
\* whether that was a string or a structured value.
C12_SnapshotRoundTrip ==
    (res.handler = "getReportById" /\ res.code = 200) =>
        \A r \in res.rows :
            reportPosted[r].t \in {"string", "object", "array"}
                => res.dataSnapshot = reportPosted[r]

(***************************************************************************)
(* Dashboard controller: the farm dashboard.                               *)
(***************************************************************************)
FarmHerdsTake == 10
FarmAlertsTake == 5
HealthTrendWindowDays == 7

\* x.toFixed(1) of x = num / den * 100 truncated instead of rounded.
ToFixed1Truncating(num, den) ==
    LET n == (1000 * num) \div den
    IN ToString(n \div 10) \o "." \o ToString(n % 10)

\* ((num / den) * 100).toFixed(1): the decimal text of the nearest tenth.
ToFixed1(num, den) ==
    LET n == (2000 * num + den) \div (2 * den)
    IN ToString(n \div 10) \o "." \o ToString(n % 10)

\* The farm that owns an animal, through its herd.
FarmOfAnimal(a) == herds[animals[a].herdId].farmId

\* The results of the seven queries of getFarmDashboard.
FarmDashboardReads(u) ==
    LET isAdmin == u.role = "ADMIN"
        mine == { a \in Ids(animals) : ~isAdmin => farms[FarmOfAnimal(a)].ownerId = u.id }
        recent == { e \in Ids(healthEvents) :
                       /\ healthEvents[e].detectedAt >= now - HealthTrendWindowDays
                       /\ healthEvents[e].animalId \in mine }
    IN [totalAnimals |-> Cardinality(mine),
        healthyAnimals |-> Cardinality({ a \in mine : animals[a].status = "HEALTHY" }),
        sickAnimals |-> Cardinality({ a \in mine : animals[a].status = "SICK" }),
        missingAnimals |-> Cardinality({ a \in mine : animals[a].status = "MISSING" }),
        herds |-> TakeDesc({ h \in Ids(herds) : ~isAdmin => farms[herds[h].farmId].ownerId = u.id },
                           [h \in Ids(herds) |-> h], FarmHerdsTake),
        recentAlerts |->
            TakeDesc({ a \in Ids(alerts) :
                          /\ alerts[a].module = "farm"
                          /\ alerts[a].status # "RESOLVED"
                          /\ ~isAdmin => /\ alerts[a].farmId # NoId
                                         /\ farms[alerts[a].farmId].ownerId = u.id },
                     [a \in Ids(alerts) |-> a], FarmAlertsTake),
        healthTrend |->
            [ type \in { healthEvents[e].type : e \in recent } |->
                Cardinality({ e \in recent : healthEvents[e].type = type }) ]]

FarmDashboardResponse(u, reads) ==
    [handler |-> "getFarmDashboard", requester |-> u.id, code |-> 200, message |-> "",
     entity |-> "herd", rows |-> reads.herds,
     stats |-> [totalAnimals |-> reads.totalAnimals,
                healthyAnimals |-> reads.healthyAnimals,
                sickAnimals |-> reads.sickAnimals,
                missingAnimals |-> reads.missingAnimals,
                healthRate |-> IF reads.totalAnimals > 0
                               THEN ToFixed1(reads.healthyAnimals, reads.totalAnimals)
                               ELSE "0"],
     recentAlerts |-> reads.recentAlerts,
     healthTrend |-> reads.healthTrend]

getFarmDashboard(u, fail) ==
    /\ res' = IF fail
              THEN Reply("getFarmDashboard", u, 500, "Failed to get farm dashboard data", "herd", {})
              ELSE FarmDashboardResponse(u, FarmDashboardReads(u))
    /\ UNCHANGED <<userDb, farmDb, alertDb, parkDb, landDb, reportDb, healthDb, pending>>

(***************************************************************************)
(* The farm dashboard over a seeded herd: user 2 owns farm 1 with one herd *)
(* of up to MaxAnimals animals in any health status; farms are added.      *)
(***************************************************************************)
AnimalStatuses == {"HEALTHY", "SICK", "MISSING"}

InitFarmDash ==
    /\ users = SeedUsers
    /\ activities = <<>>
    /\ farms = <<[ownerId |-> 2]>>
    /\ farmCreatedBy = <<2>>
    /\ herds = <<[farmId |-> 1]>>
    /\ animals \in UNION { [1..n -> [herdId : {1}, status : AnimalStatuses]] : n \in 0..MaxAnimals }
    /\ healthEvents = IF Len(animals) > 0
                      THEN <<[animalId |-> 1, type |-> "ILLNESS", detectedAt |-> 9],
                             [animalId |-> 1, type |-> "ILLNESS", detectedAt |-> 5],
                             [animalId |-> 1, type |-> "INJURY", detectedAt |-> 1]>>
                      ELSE <<>>
    /\ alerts = <<NewAlert("farm", 1)>>
    /\ parks = <<>>
    /\ wildlife = <<>>
    /\ sightings = <<>>
    /\ patrols = <<>>
    /\ incidents = <<>>
    /\ landZones = <<>>
    /\ surveys = <<>>
    /\ changes = <<>>
    /\ reports = <<>>
    /\ reportPosted = <<>>
    /\ now = 10
    /\ res = NoResponse
    /\ pending = {}

GetFarmDashboard == \E u \in Requesters, fail \in BOOLEAN : getFarmDashboard(u, fail)

NextFarmDash ==
    \/ GetFarmDashboard
    \/ GetFarms
    \/ CreateFarm

SpecFarmDash == InitFarmDash /\ [][NextFarmDash]_vars

\* The decimal text of n tenths.
Tenths(n) == ToString(n \div 10) \o "." \o ToString(n % 10)

\* C13: the healthRate of the farm dashboard is the text of the tenth nearest
\* to healthyAnimals / totalAnimals * 100 when totalAnimals > 0, and the
\* string "0" when totalAnimals = 0.
C13_FarmHealthRate ==
    (res.handler = "getFarmDashboard" /\ res.code = 200) =>
        LET total == res.stats.totalAnimals
            healthy == res.stats.healthyAnimals
        IN IF total > 0
           THEN \E n \in 0..1000 :
                    /\ res.stats.healthRate = Tenths(n)
                    /\ 2 * (1000 * healthy - n * total) <= total
                    /\ 2 * (n * total - 1000 * healthy) <= total
           ELSE res.stats.healthRate = "0"

\* Two of three animals are healthy: the dashboard reports 66.7.
C13_Witness ==
    /\ res.handler = "getFarmDashboard" /\ res.code = 200
    /\ res.stats.totalAnimals = 3 /\ res.stats.healthyAnimals = 2
    /\ res.stats.healthRate = "66.7"

(***************************************************************************)
(* Land controller.                                                        *)
(***************************************************************************)
\* degradationLevel of a zone that has none: createLandZone sets no metric.
NoLevel == -1

getLandZoneById(u, id, fail) ==
    /\ res' = IF fail
              THEN Reply("getLandZoneById", u, 500, "Failed to get land zone", "landZone", {})
              ELSE IF id \notin Ids(landZones)
              THEN Reply("getLandZoneById", u, 404, "Land zone not found", "landZone", {})
              ELSE Reply("getLandZoneById", u, 200, "", "landZone", {id})
    /\ UNCHANGED <<userDb, farmDb, alertDb, parkDb, landDb, reportDb, healthDb, pending>>

LandZoneBody ==
    [name |-> Str("Bugesera Grasslands"), coordinates |-> Str("[[30.1,-2.1]]"),
     area |-> Num(2850), region |-> Str("Eastern Province"), landUseType |-> Str("grassland")]

LandZoneBodies ==
    { LandZoneBody,
      [LandZoneBody EXCEPT !.name = Undef],
      [LandZoneBody EXCEPT !.coordinates = Undef],
      [LandZoneBody EXCEPT !.area = Undef],
      [LandZoneBody EXCEPT !.area = Num(0)],
      [LandZoneBody EXCEPT !.region = Undef],
      [LandZoneBody EXCEPT !.landUseType = Undef] }

createLandZone(u, body, fail) ==
    IF ~Truthy(body.name) \/ ~Truthy(body.coordinates) \/ ~Truthy(body.area)
        \/ ~Truthy(body.region) \/ ~Truthy(body.landUseType)
    THEN /\ res' = Reply("createLandZone", u, 400, "Please provide all required fields",
                         "landZone", {})
         /\ UNCHANGED <<userDb, farmDb, alertDb, parkDb, landDb, reportDb, healthDb, pending>>
    ELSE IF fail
    THEN /\ res' = Reply("createLandZone", u, 500, "Failed to create land zone", "landZone", {})
         /\ UNCHANGED <<userDb, farmDb, alertDb, parkDb, landDb, reportDb, healthDb, pending>>
    ELSE /\ Len(landZones) < MaxZones
         /\ landZones' = Append(landZones, [degradationLevel |-> NoLevel])
         /\ res' = Reply("createLandZone", u, 201, "Land zone created successfully", "landZone",
                         {Len(landZones) + 1})
         /\ UNCHANGED <<userDb, farmDb, alertDb, parkDb, surveys, changes, reportDb, healthDb,
                        pending>>

\* new Date(x): the day a number names; anything else is an Invalid Date,
\* which the persistence layer refuses.
DateOf(x) == IF x.t = "number" THEN x.v ELSE NoTime

\* The message of a catch block that passed the cause of the failure on.
SurveyFailureLeaking(cause) == cause

\* message: 'Failed to create survey', whatever was caught
SurveyFailure(cause) == "Failed to create survey"

\* A validation that forgot the survey date.
SurveyFieldsMissingLax(body) == ~Truthy(body.surveyType)

\* if (!surveyType || !surveyDate)
SurveyFieldsMissing(body) == ~Truthy(body.surveyType) \/ ~Truthy(body.surveyDate)

SurveyBody == [surveyType |-> Str("satellite"), surveyDate |-> Num(398), healthScore |-> Num(55)]

SurveyBodies ==
    { SurveyBody,
      [SurveyBody EXCEPT !.surveyType = Undef],
      [SurveyBody EXCEPT !.surveyDate = Undef],
      [SurveyBody EXCEPT !.surveyDate = Str("soon")],
      [SurveyBody EXCEPT !.healthScore = Undef] }

createSurvey(u, zoneId, body, fail) ==
    IF SurveyFieldsMissing(body)
    THEN /\ res' = Reply("createSurvey", u, 400, "Please provide all required fields", "survey", {})
         /\ UNCHANGED <<userDb, farmDb, alertDb, parkDb, landDb, reportDb, healthDb, pending>>
    ELSE IF fail
    THEN /\ res' = Reply("createSurvey", u, 500, SurveyFailure("Can't reach database server"),
                         "survey", {})
         /\ UNCHANGED <<userDb, farmDb, alertDb, parkDb, landDb, reportDb, healthDb, pending>>
    ELSE IF DateOf(body.surveyDate) = NoTime
    THEN /\ res' = Reply("createSurvey", u, 500, SurveyFailure("Invalid value for surveyDate"),
                         "survey", {})
         /\ UNCHANGED <<userDb, farmDb, alertDb, parkDb, landDb, reportDb, healthDb, pending>>
    ELSE IF ~ForeignKeyOk(zoneId, landZones)
    THEN /\ res' = Reply("createSurvey", u, 500, SurveyFailure("Foreign key constraint failed"),
                         "survey", {})
         /\ UNCHANGED <<userDb, farmDb, alertDb, parkDb, landDb, reportDb, healthDb, pending>>
    ELSE /\ Len(surveys) < MaxSurveys
         /\ surveys' = Append(surveys,
                [zoneId |-> zoneId, surveyDate |-> DateOf(body.surveyDate),
                 healthScore |-> IF body.healthScore.t = "number" THEN body.healthScore.v
                                 ELSE NoLevel])
         /\ res' = Reply("createSurvey", u, 201, "Survey created successfully", "survey",
                         {Len(surveys) + 1})
         /\ UNCHANGED <<userDb, farmDb, alertDb, parkDb, landZones, changes, reportDb, healthDb,
                        pending>>

ChangeBody ==
    [changeType |-> Str("deforestation"), severity |-> Str("HIGH"),
     impactDescription |-> Str("canopy loss"), detectedAt |-> Num(399)]

ChangeBodies ==
    { ChangeBody,
      [ChangeBody EXCEPT !.changeType = Undef],
      [ChangeBody EXCEPT !.severity = Undef],
      [ChangeBody EXCEPT !.impactDescription = Undef],
      [ChangeBody EXCEPT !.detectedAt = Undef] }

createChange(u, zoneId, body, fail) ==
    IF ~Truthy(body.changeType) \/ ~Truthy(body.severity)
        \/ ~Truthy(body.impactDescription) \/ ~Truthy(body.detectedAt)
    THEN /\ res' = Reply("createChange", u, 400, "Please provide all required fields", "change", {})
         /\ UNCHANGED <<userDb, farmDb, alertDb, parkDb, landDb, reportDb, healthDb, pending>>
    ELSE IF fail \/ DateOf(body.detectedAt) = NoTime \/ ~ForeignKeyOk(zoneId, landZones)
    THEN /\ res' = Reply("createChange", u, 500, "Failed to report change", "change", {})
         /\ UNCHANGED <<userDb, farmDb, alertDb, parkDb, landDb, reportDb, healthDb, pending>>
    ELSE /\ Len(changes) < MaxChanges
         /\ changes' = Append(changes, [zoneId |-> zoneId, detectedAt |-> DateOf(body.detectedAt)])
         /\ res' = Reply("createChange", u, 201, "Land change reported successfully", "change",
                         {Len(changes) + 1})
         /\ UNCHANGED <<userDb, farmDb, alertDb, parkDb, landZones, surveys, reportDb, healthDb,
                        pending>>

(***************************************************************************)
(* Dashboard controller: the land dashboard.                               *)
(***************************************************************************)
HealthyBelow == 30
DegradedFrom == 60
LandChangesTake == 5
LandZonesTake == 20
VegetationWindowDays == 365

\* A healthy bucket that takes the boundary value in.
IsHealthyInclusive(zone) ==
    zone.degradationLevel # NoLevel /\ zone.degradationLevel <= HealthyBelow

\* where: { degradationLevel: { lt: 30 } }; a NULL level matches no comparison.
IsHealthy(zone) == zone.degradationLevel # NoLevel /\ zone.degradationLevel < HealthyBelow

\* where: { degradationLevel: { gte: 60 } }
IsDegraded(zone) == zone.degradationLevel # NoLevel /\ zone.degradationLevel >= DegradedFrom

\* The results of the six queries of getLandDashboard.  An average is kept
\* as the pair of the sum and the number of rows.
LandDashboardReads ==
    LET recent == { v \in Ids(surveys) : surveys[v].surveyDate >= now - VegetationWindowDays }
    IN [totalZones |-> Len(landZones),
        healthyZones |-> Cardinality({ z \in Ids(landZones) : IsHealthy(landZones[z]) }),
        degradedZones |-> Cardinality({ z \in Ids(landZones) : IsDegraded(landZones[z]) }),
        recentChanges |-> TakeDesc(Ids(changes), [c \in Ids(changes) |-> changes[c].detectedAt],
                                   LandChangesTake),
        vegetationTrend |->
            [ z \in { surveys[v].zoneId : v \in recent } |->
                LET scored == { v \in recent : /\ surveys[v].zoneId = z
                                                /\ surveys[v].healthScore # NoLevel }
                IN [healthScore |-> <<SumOver(scored, [v \in Ids(surveys) |->
                                                          surveys[v].healthScore]),
                                      Cardinality(scored)>>] ],
        zones |-> [ z \in { y \in Ids(landZones) : y <= LandZonesTake } |->
                      TakeDesc({ v \in Ids(surveys) : surveys[v].zoneId = z },
                               [v \in Ids(surveys) |-> surveys[v].surveyDate], 1) ]]

LandDashboardResponse(u, reads) ==
    [handler |-> "getLandDashboard", requester |-> u.id, code |-> 200, message |-> "",
     entity |-> "landZone", rows |-> DOMAIN reads.zones,
     stats |-> [totalZones |-> reads.totalZones,
                healthyZones |-> reads.healthyZones,
                degradedZones |-> reads.degradedZones,
                healthRate |-> IF reads.totalZones > 0
                               THEN ToFixed1(reads.healthyZones, reads.totalZones)
                               ELSE "0"],
     recentChanges |-> reads.recentChanges,
     vegetationTrend |-> reads.vegetationTrend,
     zones |-> reads.zones]

getLandDashboard(u, fail) ==
    /\ res' = IF fail
              THEN Reply("getLandDashboard", u, 500, "Failed to get land dashboard data",
                         "landZone", {})
              ELSE LandDashboardResponse(u, LandDashboardReads)
    /\ UNCHANGED <<userDb, farmDb, alertDb, parkDb, landDb, reportDb, healthDb, pending>>

(***************************************************************************)
(* The land dashboard over seeded zones: up to MaxZones zones whose        *)
(* degradation levels sit on and beside the two thresholds; zones are      *)
(* added through the API.                                                  *)
(***************************************************************************)
SeedLevels == {HealthyBelow - 1, HealthyBelow, DegradedFrom - 1, DegradedFrom}

InitLand ==
    /\ users = SubSeq(SeedUsers, 1, 2)
    /\ activities = <<>>
    /\ farms = <<>>
    /\ farmCreatedBy = <<>>
    /\ herds = <<>>
    /\ animals = <<>>
    /\ healthEvents = <<>>
    /\ alerts = <<>>
    /\ parks = <<>>
    /\ wildlife = <<>>
    /\ sightings = <<>>
    /\ patrols = <<>>
    /\ incidents = <<>>
    /\ landZones \in UNION { [1..n -> [degradationLevel : SeedLevels]] : n \in 0..MaxZones }
    /\ surveys = IF Len(landZones) > 0
                 THEN <<[zoneId |-> 1, surveyDate |-> 390, healthScore |-> 70],
                        [zoneId |-> 1, surveyDate |-> 380, healthScore |-> 60],
                        [zoneId |-> 1, surveyDate |-> 10, healthScore |-> 20]>>
                 ELSE <<>>
    /\ changes = IF Len(landZones) > 0 THEN <<[zoneId |-> 1, detectedAt |-> 395]>> ELSE <<>>
    /\ reports = <<>>
    /\ reportPosted = <<>>
    /\ now = 400
    /\ res = NoResponse
    /\ pending = {}

GetLandZoneById ==
    \E u \in Requesters, id \in ParamIds(landZones), fail \in BOOLEAN : getLandZoneById(u, id, fail)

CreateLandZone ==
    \E u \in Requesters, body \in LandZoneBodies, fail \in BOOLEAN : createLandZone(u, body, fail)

GetLandDashboard == \E u \in Requesters, fail \in BOOLEAN : getLandDashboard(u, fail)

NextLand ==
    \/ GetLandZoneById
    \/ CreateLandZone
    \/ GetLandDashboard

SpecLand == InitLand /\ [][NextLand]_vars

\* C14: the land dashboard counts in healthyZones exactly the zones whose
\* degradationLevel is below 30 and in degradedZones exactly those whose
\* level is 60 or more; every zone is in totalZones, no zone is in both
\* buckets, and healthyZones + degradedZones <= totalZones.
C14_LandZoneBuckets ==
    [][\A u \in Requesters :
          getLandDashboard(u, FALSE) =>
              LET level == [z \in Ids(landZones) |-> landZones[z].degradationLevel]
                  healthy == { z \in Ids(landZones) : level[z] # NoLevel /\ level[z] < 30 }
                  degraded == { z \in Ids(landZones) : level[z] # NoLevel /\ level[z] >= 60 }
              IN /\ res'.stats.totalZones = Cardinality(Ids(landZones))
                 /\ res'.stats.healthyZones = Cardinality(healthy)
                 /\ res'.stats.degradedZones = Cardinality(degraded)
                 /\ healthy \cap degraded = {}
                 /\ res'.stats.healthyZones + res'.stats.degradedZones <= res'.stats.totalZones]_vars

\* Zones at 29 and 30 and a zone added without level: one healthy, none
\* degraded, three in total.
C14_Witness ==
    /\ res.handler = "getLandDashboard" /\ res.code = 200
    /\ Len(landZones) = 3
    /\ \E a, b, c \in Ids(landZones) :
           /\ landZones[a].degradationLevel = 29
           /\ landZones[b].degradationLevel = 30
           /\ landZones[c].degradationLevel = NoLevel
    /\ res.stats.totalZones = 3 /\ res.stats.healthyZones = 1 /\ res.stats.degradedZones = 0

(***************************************************************************)
(* Alert controller: the statistics.                                       *)
(***************************************************************************)
\* The results of the five counts of getAlertStats.
AlertStatsReads(u) ==
    LET mine == { a \in Ids(alerts) : u.role # "ADMIN" => alerts[a].assignedToId = u.id }
    IN [total |-> Cardinality(mine),
        new |-> Cardinality({ a \in mine : alerts[a].status = "NEW" }),
        acknowledged |-> Cardinality({ a \in mine : alerts[a].status = "ACKNOWLEDGED" }),
        inProgress |-> Cardinality({ a \in mine : alerts[a].status = "IN_PROGRESS" }),
        resolved |-> Cardinality({ a \in mine : alerts[a].status = "RESOLVED" })]

AlertStatsResponse(u, reads) ==
    [handler |-> "getAlertStats", requester |-> u.id, code |-> 200, message |-> "",
     entity |-> "alert", rows |-> {},
     stats |-> [total |-> reads.total, new |-> reads.new, acknowledged |-> reads.acknowledged,
                inProgress |-> reads.inProgress, resolved |-> reads.resolved]]

getAlertStats(u, fail) ==
    /\ res' = IF fail
              THEN Reply("getAlertStats", u, 500, "Failed to get alert statistics", "alert", {})
              ELSE AlertStatsResponse(u, AlertStatsReads(u))
    /\ UNCHANGED <<userDb, farmDb, alertDb, parkDb, landDb, reportDb, healthDb, pending>>

(***************************************************************************)
(* The aggregation endpoints as the event loop runs them: the handler      *)
(* builds the array of queries, which issues every one of them, awaits     *)
(* Promise.all of the array, and answers from the results or from the      *)
(* catch block.  Each query completes, with a result or an error, in a     *)
(* step of its own.                                                        *)
(***************************************************************************)
Aggregations ==
    {"getOverviewStats", "getFarmDashboard", "getParkDashboard", "getLandDashboard",
     "getAlertStats"}

AggregationReads(handler, u) ==
    CASE handler = "getOverviewStats" -> OverviewReads(u)
      [] handler = "getFarmDashboard" -> FarmDashboardReads(u)
      [] handler = "getParkDashboard" -> ParkDashboardReads(u)
      [] handler = "getLandDashboard" -> LandDashboardReads
      [] handler = "getAlertStats" -> AlertStatsReads(u)

\* res.json({ success: true, data: ... }) of the try block
AggregationResponse(handler, u, reads) ==
    CASE handler = "getOverviewStats" -> OverviewResponse(u, reads)
      [] handler = "getFarmDashboard" -> FarmDashboardResponse(u, reads)
      [] handler = "getParkDashboard" -> ParkDashboardResponse(u, reads)
      [] handler = "getLandDashboard" -> LandDashboardResponse(u, reads)
      [] handler = "getAlertStats" -> AlertStatsResponse(u, reads)

\* res.status(500).json({ success: false, message: ... }) of the catch block
AggregationFailure(handler, u) ==
    CASE handler = "getOverviewStats" ->
             Reply(handler, u, 500, "Failed to get overview statistics", "activity", {})
      [] handler = "getFarmDashboard" ->
             Reply(handler, u, 500, "Failed to get farm dashboard data", "herd", {})
      [] handler = "getParkDashboard" ->
             Reply(handler, u, 500, "Failed to get park dashboard data", "park", {})
      [] handler = "getLandDashboard" ->
             Reply(handler, u, 500, "Failed to get land dashboard data", "landZone", {})
      [] handler = "getAlertStats" ->
             Reply(handler, u, 500, "Failed to get alert statistics", "alert", {})

\* The queries of an aggregation, by the name their result is bound to.
Queries(handler) == DOMAIN AggregationReads(handler, [id |-> NoId, role |-> "ADMIN"])

\* An array built one query at a time, each awaited before the next.
IssueFirst(queries) == { CHOOSE q \in queries : TRUE }

\* The elements of the array literal are evaluated before Promise.all is
\* called: every query is issued, none waits for another.
IssueAll(queries) == queries

\* A join that waits for its queries and never rejects.
PromiseAllNeverRejects(queries, results, failed) ==
    IF DOMAIN results = queries THEN "fulfilled" ELSE "pending"

\* Promise.all: rejected as soon as one promise rejects, fulfilled when all
\* are fulfilled.
PromiseAll(queries, results, failed) ==
    IF failed # {} THEN "rejected"
    ELSE IF DOMAIN results = queries THEN "fulfilled"
    ELSE "pending"

\* A suspended aggregation: the queries in flight, the results of those that
\* completed, those that failed, and whether the response has been sent.
aggregationReceive(handler, u) ==
    /\ pending = {}
    /\ pending' = { [handler |-> handler, user |-> u, inFlight |-> IssueAll(Queries(handler)),
                     results |-> <<>>, failed |-> {}, answered |-> FALSE] }
    /\ UNCHANGED <<userDb, farmDb, alertDb, parkDb, landDb, reportDb, healthDb, res>>

queryComplete(call, q, ok) ==
    LET results == IF ok
                   THEN [x \in DOMAIN call.results \cup {q} |->
                            IF x = q THEN AggregationReads(call.handler, call.user)[q]
                            ELSE call.results[x]]
                   ELSE call.results
        failed == IF ok THEN call.failed ELSE call.failed \cup {q}
        inFlight == call.inFlight \ {q}
        outcome == PromiseAll(Queries(call.handler), results, failed)
        answers == ~call.answered /\ outcome # "pending"
        after == [call EXCEPT !.inFlight = inFlight, !.results = results, !.failed = failed,
                              !.answered = call.answered \/ answers]
    IN
    /\ call \in pending
    /\ q \in call.inFlight
    /\ res' = IF ~answers THEN res
              ELSE IF outcome = "rejected" THEN AggregationFailure(call.handler, call.user)
              ELSE AggregationResponse(call.handler, call.user, results)
    /\ pending' = IF inFlight = {} /\ after.answered THEN {} ELSE {after}
    /\ UNCHANGED <<userDb, farmDb, alertDb, parkDb, landDb, reportDb, healthDb>>

(***************************************************************************)
(* Aggregations over a seeded store: the administrator and a farmer who    *)
(* owns a farm and manages a park ask for the dashboards, one at a time.   *)
(***************************************************************************)
InitFanOut ==
    /\ users = SubSeq(SeedUsers, 1, 2)
    /\ activities = <<[userId |-> 2, timestamp |-> 395]>>
    /\ farms = <<[ownerId |-> 2]>>
    /\ farmCreatedBy = <<2>>
    /\ herds = <<[farmId |-> 1]>>
    /\ animals = <<[herdId |-> 1, status |-> "HEALTHY"], [herdId |-> 1, status |-> "SICK"]>>
    /\ healthEvents = <<[animalId |-> 2, type |-> "ILLNESS", detectedAt |-> 398]>>
    /\ alerts = <<[NewAlert("farm", 1) EXCEPT !.assignedToId = 2]>>
    /\ parks = <<[managerId |-> 2]>>
    /\ wildlife = <<[parkId |-> 1, estimatedCount |-> 120]>>
    /\ sightings = <<[populationId |-> 1, timestamp |-> 390, count |-> 4]>>
    /\ patrols = <<[parkId |-> 1, status |-> "SCHEDULED"]>>
    /\ incidents = <<>>
    /\ landZones = <<[degradationLevel |-> 38], [degradationLevel |-> 12]>>
    /\ surveys = <<[zoneId |-> 1, surveyDate |-> 390, healthScore |-> 70]>>
    /\ changes = <<[zoneId |-> 1, detectedAt |-> 395]>>
    /\ reports = <<>>
    /\ reportPosted = <<>>
    /\ now = 400
    /\ res = NoResponse
    /\ pending = {}

AggregationReceive ==
    \E handler \in Aggregations, u \in Requesters : aggregationReceive(handler, u)

QueryComplete ==
    \E call \in pending : \E q \in call.inFlight, ok \in BOOLEAN : queryComplete(call, q, ok)

NextFanOut ==
    \/ AggregationReceive
    \/ QueryComplete

SpecFanOut == InitFanOut /\ [][NextFanOut]_vars

\* C15: in every aggregation endpoint, once one of the queries has failed the
\* request is answered 500 with the handler's bare failure body, which holds
\* nothing of the queries that succeeded; that is the only response of the
\* request, and no success response is sent.
C15_AggregationAllOrNothing ==
    [][\A call \in pending : \A q \in call.inFlight, ok \in BOOLEAN :
          queryComplete(call, q, ok) =>
              /\ (call.failed \cup (IF ok THEN {} ELSE {q}) # {}) =>
                     /\ res'.handler = call.handler /\ res'.requester = call.user.id
                     /\ res'.code = 500 /\ res'.rows = {}
                     /\ DOMAIN res' = DOMAIN NoResponse
              /\ call.answered => res' = res]_vars

\* An aggregation was answered 500 although some of its queries had
\* delivered their results.
C15_Witness ==
    /\ res.code = 500
    /\ \E call \in pending :
           /\ call.answered /\ res.handler = call.handler
           /\ call.failed # {} /\ DOMAIN call.results # {}

\* The step has sent the response of a call that was not answered before.
SendsResponse == pending' = {} \/ \E c \in pending' : c.answered

\* C16 as stated: the handler issues all its reads at once, and sends its
\* response only after every read has completed.
C16_RespondsAfterEveryRead ==
    [][/\ \A handler \in Aggregations, u \in Requesters :
              aggregationReceive(handler, u) =>
                  \A c \in pending' : c.inFlight = Queries(handler) /\ DOMAIN c.results = {}
       /\ \A call \in pending : \A q \in call.inFlight, ok \in BOOLEAN :
              (queryComplete(call, q, ok) /\ ~call.answered /\ SendsResponse) =>
                  call.inFlight = {q}]_vars

\* C16 as amended: the handler issues all its reads at once; it sends a
\* success response only after every read has completed successfully, and it
\* sends the 500 response at the first read that fails, whether or not other
\* reads are still in flight.
C16_SucceedsAfterEveryRead ==
    [][/\ \A handler \in Aggregations, u \in Requesters :
              aggregationReceive(handler, u) =>
                  \A c \in pending' : c.inFlight = Queries(handler) /\ DOMAIN c.results = {}
       /\ \A call \in pending : \A q \in call.inFlight, ok \in BOOLEAN :
              (queryComplete(call, q, ok) /\ ~call.answered /\ SendsResponse) =>
                  IF res'.code = 200
                  THEN call.inFlight = {q} /\ ok /\ call.failed = {}
                  ELSE res'.code = 500 /\ ~ok /\ call.failed = {}]_vars

\* The farm dashboard was answered 500 while reads of it were still in
\* flight.
C16_Witness ==
    /\ res.handler = "getFarmDashboard" /\ res.code = 500
    /\ \E call \in pending :
           call.handler = "getFarmDashboard" /\ call.answered /\ call.inFlight # {}

(***************************************************************************)
(* User controller and the password change of the auth controller.         *)
(***************************************************************************)
\* An update that removes the row it was to change.
UpdateRowDropping(table, id, row) == SubSeq(table, 1, id - 1) \o SubSeq(table, id + 1, Len(table))

\* prisma.<table>.update({ where: { id }, data })
UpdateRow(table, id, row) == [table EXCEPT ![id] = row]

UserBody ==
    [email |-> Str("ranger@kube.africa"), password |-> Str("secret"),
     firstName |-> Str("Eric"), lastName |-> Str("Mugisha"), role |-> Str("RANGER"),
     businessType |-> Undef, companyName |-> Undef, services |-> Undef]

UserBodies ==
    { UserBody,
      [UserBody EXCEPT !.email = Undef],
      [UserBody EXCEPT !.email = Str("admin@kube.africa")],
      [UserBody EXCEPT !.password = Undef],
      [UserBody EXCEPT !.firstName = Undef],
      [UserBody EXCEPT !.lastName = Undef],
      [UserBody EXCEPT !.role = Undef],
      [UserBody EXCEPT !.services = Arr(<<"KUBE_PARK">>)] }

createUser(u, body, fail) ==
    IF ~Truthy(body.email) \/ ~Truthy(body.password) \/ ~Truthy(body.firstName)
        \/ ~Truthy(body.lastName) \/ ~Truthy(body.role)
    THEN /\ res' = Reply("createUser", u, 400,
                         "Email, password, first name, last name, and role are required", "user", {})
         /\ UNCHANGED <<userDb, farmDb, alertDb, parkDb, landDb, reportDb, healthDb, pending>>
    ELSE IF fail
    THEN /\ res' = Reply("createUser", u, 500, "Failed to create user", "user", {})
         /\ UNCHANGED <<userDb, farmDb, alertDb, parkDb, landDb, reportDb, healthDb, pending>>
    ELSE IF UserWithEmail(body.email.v) # {}
    THEN /\ res' = Reply("createUser", u, 400, "User with this email already exists", "user", {})
         /\ UNCHANGED <<userDb, farmDb, alertDb, parkDb, landDb, reportDb, healthDb, pending>>
    ELSE /\ Len(users) < MaxUsers
         /\ users' = Append(users,
                [email |-> body.email.v, password |-> Hash(body.password.v),
                 role |-> body.role.v, status |-> "ACTIVE",
                 services |-> IF ~Truthy(body.services) THEN Null
                              ELSE IF body.services.t = "array" THEN JsonStringify(body.services.v)
                              ELSE <<JsonText(body.services)>>,
                 businessType |-> OrNull(body.businessType),
                 companyName |-> OrNull(body.companyName),
                 lastLoginAt |-> NoTime])
         /\ res' = Reply("createUser", u, 201, "User created successfully", "user",
                         {Len(users) + 1})
         /\ UNCHANGED <<activities, farmDb, alertDb, parkDb, landDb, reportDb, healthDb, pending>>

MinPasswordLength == 6

PasswordBody == [currentPassword |-> Str("password123"), newPassword |-> Str("s3cret!")]

PasswordBodies ==
    { PasswordBody,
      [PasswordBody EXCEPT !.currentPassword = Undef],
      [PasswordBody EXCEPT !.newPassword = Undef],
      [PasswordBody EXCEPT !.newPassword = Str("abc")],
      [PasswordBody EXCEPT !.currentPassword = Str("wrong")] }

changePassword(u, body, fail) ==
    IF ~Truthy(body.currentPassword) \/ ~Truthy(body.newPassword)
    THEN /\ res' = Reply("changePassword", u, 400,
                         "Current password and new password are required", "user", {})
         /\ UNCHANGED <<userDb, farmDb, alertDb, parkDb, landDb, reportDb, healthDb, pending>>
    ELSE IF Len(body.newPassword.v) < MinPasswordLength
    THEN /\ res' = Reply("changePassword", u, 400,
                         "New password must be at least 6 characters", "user", {})
         /\ UNCHANGED <<userDb, farmDb, alertDb, parkDb, landDb, reportDb, healthDb, pending>>
    ELSE IF fail
    THEN /\ res' = Reply("changePassword", u, 500, "Failed to change password", "user", {})
         /\ UNCHANGED <<userDb, farmDb, alertDb, parkDb, landDb, reportDb, healthDb, pending>>
    ELSE IF u.id \notin Ids(users)
    THEN /\ res' = Reply("changePassword", u, 404, "User not found", "user", {})
         /\ UNCHANGED <<userDb, farmDb, alertDb, parkDb, landDb, reportDb, healthDb, pending>>
    ELSE IF ~Compare(body.currentPassword.v, users[u.id].password)
    THEN /\ res' = Reply("changePassword", u, 401, "Current password is incorrect", "user", {})
         /\ UNCHANGED <<userDb, farmDb, alertDb, parkDb, landDb, reportDb, healthDb, pending>>
    ELSE /\ users' = UpdateRow(users, u.id,
                               [users[u.id] EXCEPT !.password = Hash(body.newPassword.v)])
         /\ res' = Reply("changePassword", u, 200, "Password changed successfully", "user", {u.id})
         /\ UNCHANGED <<activities, farmDb, alertDb, parkDb, landDb, reportDb, healthDb, pending>>

(***************************************************************************)
(* The whole API: the administrator, with a farm, a park and a land zone,  *)
(* calls every handler that writes and the reads by id; at most MaxNewRows *)
(* rows are added in all.                                                  *)
(***************************************************************************)
RowCount ==
    Len(users) + Len(farms) + Len(herds) + Len(alerts) + Len(parks) + Len(patrols)
        + Len(incidents) + Len(landZones) + Len(surveys) + Len(changes) + Len(reports)

\* The rows of InitApi.
ApiSeedRows == 4

WithinCap == RowCount' <= ApiSeedRows + MaxNewRows

InitApi ==
    /\ users = SubSeq(SeedUsers, 1, 1)
    /\ activities = <<>>
    /\ farms = <<[ownerId |-> 1]>>
    /\ farmCreatedBy = <<1>>
    /\ herds = <<>>
    /\ animals = <<>>
    /\ healthEvents = <<>>
    /\ alerts = <<>>
    /\ parks = <<[managerId |-> 1]>>
    /\ wildlife = <<>>
    /\ sightings = <<>>
    /\ patrols = <<>>
    /\ incidents = <<>>
    /\ landZones = <<[degradationLevel |-> 38]>>
    /\ surveys = <<>>
    /\ changes = <<>>
    /\ reports = <<>>
    /\ reportPosted = <<>>
    /\ now = 400
    /\ res = NoResponse
    /\ pending = {}

\* The administrator of the seed, who makes every call.
ApiRequester == [id |-> 1, role |-> SeedUsers[1].role]

\* A failure of the persistence layer is injected into calls whose body is
\* complete; an incomplete body is answered before any persistence call.
ApiCreateFarm ==
    /\ \E body \in FarmBodies, fail \in BOOLEAN :
           (fail => body = FarmBody) /\ createFarm(ApiRequester, body, fail)
    /\ WithinCap

ApiCreateHerd ==
    /\ \E farmId \in ParamIds(farms), body \in HerdBodies, fail \in BOOLEAN :
           (fail => body = HerdBody) /\ createHerd(ApiRequester, farmId, body, fail)
    /\ WithinCap

\* Alerts without a farm, on the seeded farm and on a farm that does not exist.
ApiAlertBodies ==
    { b \in AlertBodies : b.farmId \in {Undef, Num(1), Num(Len(farms) + 1)} }

ApiCreateAlert ==
    /\ \E body \in ApiAlertBodies, fail \in BOOLEAN :
           (fail => body = AlertBody) /\ createAlert(ApiRequester, body, fail)
    /\ WithinCap

ApiStatusBodies == [status : {Undef, Str("RESOLVED")}]

ApiUpdateAlertStatus ==
    \E id \in ParamIds(alerts), body \in ApiStatusBodies, fail \in BOOLEAN :
        (fail => body.status = Str("RESOLVED")) /\ updateAlertStatus(ApiRequester, id, body, fail)

ApiAssignAlert ==
    \E id \in ParamIds(alerts), body \in AssignBodies, fail \in BOOLEAN :
        (fail => body.assignedToId = Num(1)) /\ assignAlert(ApiRequester, id, body, fail)

ApiCreatePark ==
    /\ \E body \in ParkBodies, fail \in BOOLEAN :
           (fail => body = ParkBody) /\ createPark(ApiRequester, body, fail)
    /\ WithinCap

ApiCreatePatrol ==
    /\ \E parkId \in ParamIds(parks), body \in PatrolBodies, fail \in BOOLEAN :
           (fail => body = PatrolBody) /\ createPatrol(ApiRequester, parkId, body, fail)
    /\ WithinCap

ApiCreateIncident ==
    /\ \E parkId \in ParamIds(parks), body \in IncidentBodies, fail \in BOOLEAN :
           (fail => body = IncidentBody) /\ createIncident(ApiRequester, parkId, body, fail)
    /\ WithinCap

ApiCreateLandZone ==
    /\ \E body \in LandZoneBodies, fail \in BOOLEAN :
           (fail => body = LandZoneBody) /\ createLandZone(ApiRequester, body, fail)
    /\ WithinCap

ApiCreateSurvey ==
    /\ \E zoneId \in ParamIds(landZones), body \in SurveyBodies, fail \in BOOLEAN :
           (fail => body = SurveyBody) /\ createSurvey(ApiRequester, zoneId, body, fail)
    /\ WithinCap

ApiCreateChange ==
    /\ \E zoneId \in ParamIds(landZones), body \in ChangeBodies, fail \in BOOLEAN :
           (fail => body = ChangeBody) /\ createChange(ApiRequester, zoneId, body, fail)
    /\ WithinCap

ApiReportBodies == { b \in ReportBodies : b.dataSnapshot \in {Undef, ReportBody.dataSnapshot} }

ApiGenerateReport ==
    /\ \E body \in ApiReportBodies, fail \in BOOLEAN :
           (fail => body = ReportBody) /\ generateReport(ApiRequester, body, fail)
    /\ WithinCap

ApiRegisterBodies ==
    { b \in RegisterBodies : /\ b.role = RegisterBody.role
                             /\ b.businessType = RegisterBody.businessType
                             /\ b.services = RegisterBody.services }

ApiRegister ==
    /\ \E body \in ApiRegisterBodies, fail \in BOOLEAN :
           (fail => body = RegisterBody) /\ register(body, fail)
    /\ WithinCap

ApiUserBodies == { b \in UserBodies : b.services = UserBody.services }

ApiCreateUser ==
    /\ \E body \in ApiUserBodies, fail \in BOOLEAN :
           (fail => body = UserBody) /\ createUser(ApiRequester, body, fail)
    /\ WithinCap

ApiChangePassword ==
    \E body \in PasswordBodies, fail \in BOOLEAN :
        (fail => body = PasswordBody) /\ changePassword(ApiRequester, body, fail)

NextApi ==
    \/ ApiCreateFarm
    \/ ApiCreateHerd
    \/ ApiCreateAlert
    \/ ApiUpdateAlertStatus
    \/ ApiAssignAlert
    \/ ApiCreatePark
    \/ ApiCreatePatrol
    \/ ApiCreateIncident
    \/ ApiCreateLandZone
    \/ ApiCreateSurvey
    \/ ApiCreateChange
    \/ ApiGenerateReport
    \/ ApiRegister
    \/ ApiCreateUser
    \/ ApiChangePassword

SpecApi == InitApi /\ [][NextApi]_vars

(***************************************************************************)
(* Properties of the whole API.                                            *)
(***************************************************************************)
Unknown(table) == ParamIds(table) \ Ids(table)

\* C17: a handler given an id that references no existing row answers 404:
\* updateAlertStatus and assignAlert for an unknown alert id, createHerd,
\* createSurvey, createChange, createPatrol and createIncident for an unknown
\* parent id, each with a complete body and no failure of the database.
C17_UnknownIdAnswers404 ==
    [][ /\ \A id \in Unknown(alerts) :
               updateAlertStatus(ApiRequester, id, [status |-> Str("RESOLVED")], FALSE)
                   => res'.code = 404
        /\ \A id \in Unknown(alerts) :
               assignAlert(ApiRequester, id, [assignedToId |-> Num(1)], FALSE)
                   => res'.code = 404
        /\ \A id \in Unknown(farms) :
               createHerd(ApiRequester, id, HerdBody, FALSE) => res'.code = 404
        /\ \A id \in Unknown(landZones) :
               createSurvey(ApiRequester, id, SurveyBody, FALSE) => res'.code = 404
        /\ \A id \in Unknown(landZones) :
               createChange(ApiRequester, id, ChangeBody, FALSE) => res'.code = 404
        /\ \A id \in Unknown(parks) :
               createPatrol(ApiRequester, id, PatrolBody, FALSE) => res'.code = 404
        /\ \A id \in Unknown(parks) :
               createIncident(ApiRequester, id, IncidentBody, FALSE) => res'.code = 404
      ]_vars

\* The fields each create or update handler requires.
Required ==
    [createFarm |-> {"name", "location", "latitude", "longitude"},
     createHerd |-> {"name", "animalType", "totalCount"},
     createAlert |-> {"type", "severity", "title", "message", "module"},
     updateAlertStatus |-> {"status"},
     assignAlert |-> {"assignedToId"},
     createPark |-> {"name", "parkType", "location", "latitude", "longitude"},
     createPatrol |-> {"name", "patrolType", "scheduledStart", "scheduledEnd"},
     createIncident |-> {"type", "severity", "title", "latitude", "longitude"},
     createLandZone |-> {"name", "coordinates", "area", "region", "landUseType"},
     createSurvey |-> {"surveyType", "surveyDate"},
     createChange |-> {"changeType", "severity", "impactDescription", "detectedAt"},
     generateReport |-> {"title", "type", "module", "dataSnapshot"},
     register |-> {"email", "password", "firstName", "lastName"},
     createUser |-> {"email", "password", "firstName", "lastName", "role"},
     changePassword |-> {"currentPassword", "newPassword"}]

\* The body lacks one of the handler's required fields.
Missing(handler, body) == \E f \in Required[handler] : body[f] = Undef

\* The response is the rejection of the request and nothing was written.
Rejected ==
    /\ res'.code = 400
    /\ res'.rows = {}
    /\ UNCHANGED <<userDb, farmDb, alertDb, parkDb, landDb, reportDb, healthDb>>

\* C18: every create or update handler that receives a body missing a
\* required field answers 400 and performs no write: the stored data is
\* unchanged.  Stated per handler as: a step of the handler is a rejection
\* without write, or it is not a call with a body missing a required field.
C18_MissingFieldRejectedWithoutWrite ==
    [][ /\ res'.handler = "createFarm" =>
               Rejected \/ \A body \in FarmBodies, fail \in BOOLEAN :
                   ~(Missing("createFarm", body) /\ createFarm(ApiRequester, body, fail))
        /\ res'.handler = "createHerd" =>
               Rejected \/ \A id \in ParamIds(farms), body \in HerdBodies, fail \in BOOLEAN :
                   ~(Missing("createHerd", body) /\ createHerd(ApiRequester, id, body, fail))
        /\ res'.handler = "createAlert" =>
               Rejected \/ \A body \in AlertBodies, fail \in BOOLEAN :
                   ~(Missing("createAlert", body) /\ createAlert(ApiRequester, body, fail))
        /\ res'.handler = "updateAlertStatus" =>
               Rejected \/ \A id \in ParamIds(alerts), body \in StatusBodies, fail \in BOOLEAN :
                   ~(Missing("updateAlertStatus", body)
                       /\ updateAlertStatus(ApiRequester, id, body, fail))
        /\ res'.handler = "assignAlert" =>
               Rejected \/ \A id \in ParamIds(alerts), body \in AssignBodies, fail \in BOOLEAN :
                   ~(Missing("assignAlert", body) /\ assignAlert(ApiRequester, id, body, fail))
        /\ res'.handler = "createPark" =>
               Rejected \/ \A body \in ParkBodies, fail \in BOOLEAN :
                   ~(Missing("createPark", body) /\ createPark(ApiRequester, body, fail))
        /\ res'.handler = "createPatrol" =>
               Rejected \/ \A id \in ParamIds(parks), body \in PatrolBodies, fail \in BOOLEAN :
                   ~(Missing("createPatrol", body) /\ createPatrol(ApiRequester, id, body, fail))
        /\ res'.handler = "createIncident" =>
               Rejected \/ \A id \in ParamIds(parks), body \in IncidentBodies, fail \in BOOLEAN :
                   ~(Missing("createIncident", body) /\ createIncident(ApiRequester, id, body, fail))
        /\ res'.handler = "createLandZone" =>
               Rejected \/ \A body \in LandZoneBodies, fail \in BOOLEAN :
                   ~(Missing("createLandZone", body) /\ createLandZone(ApiRequester, body, fail))
        /\ res'.handler = "createSurvey" =>
               Rejected \/ \A id \in ParamIds(landZones), body \in SurveyBodies, fail \in BOOLEAN :
                   ~(Missing("createSurvey", body) /\ createSurvey(ApiRequester, id, body, fail))
        /\ res'.handler = "createChange" =>
               Rejected \/ \A id \in ParamIds(landZones), body \in ChangeBodies, fail \in BOOLEAN :
                   ~(Missing("createChange", body) /\ createChange(ApiRequester, id, body, fail))
        /\ res'.handler = "generateReport" =>
               Rejected \/ \A body \in ReportBodies, fail \in BOOLEAN :
                   ~(Missing("generateReport", body) /\ generateReport(ApiRequester, body, fail))
        /\ res'.handler = "register" =>
               Rejected \/ \A body \in RegisterBodies, fail \in BOOLEAN :
                   ~(Missing("register", body) /\ register(body, fail))
        /\ res'.handler = "createUser" =>
               Rejected \/ \A body \in UserBodies, fail \in BOOLEAN :
                   ~(Missing("createUser", body) /\ createUser(ApiRequester, body, fail))
        /\ res'.handler = "changePassword" =>
               Rejected \/ \A body \in PasswordBodies, fail \in BOOLEAN :
                   ~(Missing("changePassword", body) /\ changePassword(ApiRequester, body, fail))
      ]_vars

\* A survey without its date was rejected while the land zone it names
\* exists, and no survey is stored.
C18_Witness ==
    /\ res.handler = "createSurvey"
    /\ res.code = 400
    /\ res.message = "Please provide all required fields"
    /\ Len(landZones) = 1
    /\ surveys = <<>>

\* The message of each handler's catch block.
FailureMessage ==
    [createFarm |-> "Failed to create farm",
     createHerd |-> "Failed to create herd",
     createAlert |-> "Failed to create alert",
     updateAlertStatus |-> "Failed to update alert",
     assignAlert |-> "Failed to assign alert",
     createPark |-> "Failed to create park",
     createPatrol |-> "Failed to create patrol",
     createIncident |-> "Failed to report incident",
     createLandZone |-> "Failed to create land zone",
     createSurvey |-> "Failed to create survey",
     createChange |-> "Failed to report change",
     generateReport |-> "Failed to generate report",
     register |-> "Registration failed",
     createUser |-> "Failed to create user",
     changePassword |-> "Failed to change password"]

\* What a response carries besides its status and message.
Payload(r) ==
    IF "token" \in DOMAIN r
    THEN [rows |-> r.rows, detail |-> r.detail, user |-> r.user, token |-> r.token]
    ELSE [rows |-> r.rows, detail |-> <<>>, user |-> Null, token |-> Null]

NoPayload == [rows |-> {}, detail |-> <<>>, user |-> Null, token |-> Null]

\* C19: when a persistence call or another unexpected exception fails inside
\* a handler, the response is a 500 whose body is a fixed generic message that
\* depends only on the handler and carries nothing else, whatever the failure
\* was: a database that cannot be reached, a row that does not exist, a broken
\* foreign key or a value that is no date.
C19_FailureBodyDependsOnHandlerOnly ==
    res.code = 500 =>
        /\ res.message = FailureMessage[res.handler]
        /\ Payload(res) = NoPayload

\* createSurvey failed with the land zone present and no survey stored; the
\* failure was the database, the zone id or the survey date.
C19_Witness ==
    /\ res.handler = "createSurvey"
    /\ res.code = 500
    /\ res.message = "Failed to create survey"
    /\ Len(landZones) = 1
    /\ surveys = <<>>

\* Every row of the table before the step is a row of the table after it.
Kept(before, after) == Ids(before) \subseteq Ids(after)

\* C20: no endpoint deletes a row: under any sequence of handler invocations
\* every row that exists continues to exist; the sets of users, farms, herds,
\* parks, land zones, alerts and reports (and of patrols, incidents, surveys
\* and changes) only grow.
C20_TablesOnlyGrow ==
    [][ /\ Kept(users, users')
        /\ Kept(farms, farms')
        /\ Kept(herds, herds')
        /\ Kept(parks, parks')
        /\ Kept(landZones, landZones')
        /\ Kept(alerts, alerts')
        /\ Kept(reports, reports')
        /\ Kept(patrols, patrols')
        /\ Kept(incidents, incidents')
        /\ Kept(surveys, surveys')
        /\ Kept(changes, changes')
      ]_vars

\* The administrator's row was updated by a password change and is still
\* there, next to a row that a create handler added.
C20_Witness ==
    /\ res.handler = "changePassword"
    /\ res.code = 200
    /\ users[1].password = Hash("s3cret!")
    /\ RowCount = ApiSeedRows + MaxNewRows

\* The foreign key column holds the id of a row of the parent table.
References(id, parent) == id \in Ids(parent)

\* C21: in every reachable state each child row's foreign key references an
\* existing parent row: farm to owner, herd to farm, park to manager, survey
\* and change to land zone, patrol and incident to park, alert to farm when
\* set and alert to assignee when set.
C21_ForeignKeysReferenceRows ==
    /\ \A f \in Ids(farms) : References(farms[f].ownerId, users)
    /\ \A h \in Ids(herds) : References(herds[h].farmId, farms)
    /\ \A p \in Ids(parks) : References(parks[p].managerId, users)
    /\ \A x \in Ids(surveys) : References(surveys[x].zoneId, landZones)
    /\ \A x \in Ids(changes) : References(changes[x].zoneId, landZones)
    /\ \A x \in Ids(patrols) : References(patrols[x].parkId, parks)
    /\ \A x \in Ids(incidents) : References(incidents[x].parkId, parks)
    /\ \A a \in Ids(alerts) :
           /\ alerts[a].farmId # NoId => References(alerts[a].farmId, farms)
           /\ alerts[a].assignedToId # NoId => References(alerts[a].assignedToId, users)

\* An alert attached to a farm was assigned: both of its foreign keys are set.
C21_Witness ==
    /\ res.handler = "assignAlert"
    /\ res.code = 200
    /\ \E a \in Ids(alerts) : alerts[a].farmId # NoId /\ alerts[a].assignedToId # NoId

(***************************************************************************)
(* The lists of the farm dashboard: two farmers with a farm each, herds    *)
(* and alerts in the order of their creation.                              *)
(***************************************************************************)
\* Herds of the first farm, one of them at most on the second farm.
DashHerds ==
    { [i \in 1..n |-> [farmId |-> IF i = other THEN 2 ELSE 1]] :
          n \in 0..MaxDashHerds, other \in 0..MaxDashHerds }

DashAlertKinds ==
    { NewAlert("farm", 1), NewAlert("farm", 2), NewAlert("park", NoId),
      [NewAlert("farm", 1) EXCEPT !.status = "RESOLVED", !.resolvedBy = 1, !.resolvedAt = 9] }

DashAlerts == UNION { [1..n -> DashAlertKinds] : n \in 0..MaxDashAlerts }

InitFarmRecent ==
    /\ users = SeedUsers
    /\ activities = <<>>
    /\ farms = <<[ownerId |-> 2], [ownerId |-> 3]>>
    /\ farmCreatedBy = <<2, 3>>
    /\ \/ herds \in DashHerds /\ alerts = <<>>
       \/ herds = <<>> /\ alerts \in DashAlerts
    /\ animals = <<>>
    /\ healthEvents = <<>>
    /\ parks = <<>>
    /\ wildlife = <<>>
    /\ sightings = <<>>
    /\ patrols = <<>>
    /\ incidents = <<>>
    /\ landZones = <<>>
    /\ surveys = <<>>
    /\ changes = <<>>
    /\ reports = <<>>
    /\ reportPosted = <<>>
    /\ now = 10
    /\ res = NoResponse
    /\ pending = {}

NextFarmRecent ==
    \/ GetFarmDashboard
    \/ GetHerds

SpecFarmRecent == InitFarmRecent /\ [][NextFarmRecent]_vars

\* The rows of the set that a list of at most n rows, newest first, holds;
\* a row with a larger id is newer.
Newest(list, set, n) ==
    /\ list \subseteq set
    /\ Cardinality(list) = IF Cardinality(set) < n THEN Cardinality(set) ELSE n
    /\ \A x \in list, y \in set \ list : y < x

Unresolved == { a \in Ids(alerts) : alerts[a].module = "farm" /\ alerts[a].status # "RESOLVED" }

VisibleTo(uid, farmId) ==
    users[uid].role = "ADMIN" \/ (farmId # NoId /\ farms[farmId].ownerId = uid)

C23_ResolvedHasResolvedAt ==
    \A a \in Ids(alerts) : alerts[a].status = "RESOLVED" => alerts[a].resolvedAt # NoTime

\* An alert that createAlert added was assigned and then resolved.
C23_Witness ==
    /\ res.handler = "updateAlertStatus"
    /\ res.code = 200
    /\ \E a \in Ids(alerts) :
           /\ alerts[a].status = "RESOLVED"
           /\ alerts[a].assignedToId # NoId
           /\ alerts[a].resolvedAt = now

\* The resolver stamps of every alert are what they were before the step.
StampsKept ==
    \A a \in Ids(alerts) :
        /\ alerts'[a].resolvedBy = alerts[a].resolvedBy
        /\ alerts'[a].resolvedAt = alerts[a].resolvedAt

\* C24: assignAlert, and updateAlertStatus with a status other than RESOLVED,
\* leave resolvedBy and resolvedAt of every alert unchanged, whatever the
\* outcome of the call; an alert that was resolved and is then reassigned or
\* moved back keeps its resolver stamps.
C24_StampsSurviveReassignAndReopen ==
    [][ /\ res'.handler = "assignAlert" =>
               StampsKept \/ \A u \in Requesters, id \in ParamIds(alerts),
                                body \in AssignBodies, fail \in BOOLEAN :
                                 ~assignAlert(u, id, body, fail)
        /\ res'.handler = "updateAlertStatus" =>
               StampsKept \/ \A u \in Requesters, id \in ParamIds(alerts),
                                body \in StatusBodies, fail \in BOOLEAN :
                                 ~(body.status # Str("RESOLVED")
                                     /\ updateAlertStatus(u, id, body, fail))
      ]_vars

\* The alert was resolved and has just been moved back to IN_PROGRESS: it
\* still names its resolver and the time of the resolution.
C24_Witness ==
    /\ res.handler = "updateAlertStatus"
    /\ res.code = 200
    /\ alerts[1].status = "IN_PROGRESS"
    /\ alerts[1].resolvedBy # NoId
    /\ alerts[1].resolvedAt # NoTime

(***************************************************************************)
(* getAlertStats, one count at a time, while the alert handlers write.     *)
(***************************************************************************)
InitStats ==
    /\ users = SubSeq(SeedUsers, 1, 2)
    /\ activities = <<>>
    /\ farms = <<[ownerId |-> 2]>>
    /\ farmCreatedBy = <<2>>
    /\ herds = <<>>
    /\ animals = <<>>
    /\ healthEvents = <<>>
    /\ alerts = <<>>
    /\ parks = <<>>
    /\ wildlife = <<>>
    /\ sightings = <<>>
    /\ patrols = <<>>
    /\ incidents = <<>>
    /\ landZones = <<>>
    /\ surveys = <<>>
    /\ changes = <<>>
    /\ reports = <<>>
    /\ reportPosted = <<>>
    /\ now = 400
    /\ res = NoResponse
    /\ pending = {}

StatsReceive == \E u \in Requesters : aggregationReceive("getAlertStats", u)

\* The writes that land between the counts: the administrator adds an alert,
\* moves it on and assigns it to the farmer.
StatsCreateAlert ==
    \E body \in { b \in AlertBodies : b = AlertBody \/ b.farmId \in {Num(f) : f \in Ids(farms)} } :
        createAlert(ApiRequester, body, FALSE)

StatsUpdateAlertStatus ==
    \E id \in Ids(alerts), status \in {"IN_PROGRESS", "RESOLVED"} :
        updateAlertStatus(ApiRequester, id, [status |-> Str(status)], FALSE)

StatsAssignAlert ==
    \E id \in Ids(alerts) : assignAlert(ApiRequester, id, [assignedToId |-> Num(2)], FALSE)

NextStats ==
    \/ StatsReceive
    \/ QueryComplete
    \/ StatsCreateAlert
    \/ StatsUpdateAlertStatus
    \/ StatsAssignAlert

SpecStats == InitStats /\ [][NextStats]_vars

\* C25: in every getAlertStats response total equals new + acknowledged +
\* inProgress + resolved, also when createAlert, updateAlertStatus or
\* assignAlert calls are applied between the five count queries of the
\* request.
C25_StatsTotalIsSumOfStatuses ==
    (res.handler = "getAlertStats" /\ res.code = 200) =>
        res.stats.total = res.stats.new + res.stats.acknowledged
                              + res.stats.inProgress + res.stats.resolved

(***************************************************************************)
(* Concurrent registration: register suspended at its awaits, between the  *)
(* look-up of the email and the insert.                                    *)
(***************************************************************************)
\* The body passes the validations and findUnique({ where: { email } }) finds
\* no user.
RegisterChecksPass(body) ==
    /\ Truthy(body.email) /\ Truthy(body.password)
    /\ Truthy(body.firstName) /\ Truthy(body.lastName)
    /\ Len(InvalidServices(body.services)) = 0
    /\ ~MissingCompanyName(body)
    /\ UserWithEmail(body.email.v) = {}

RegisterCall(body) == [handler |-> "register", body |-> body]

\* register up to await bcrypt.hash: the answers it gives before that are
\* those of the handler run in one piece.
registerReceive(body) ==
    IF ~RegisterChecksPass(body)
    THEN register(body, FALSE)
    ELSE /\ Cardinality(pending) < MaxInFlight
         /\ RegisterCall(body) \notin pending
         /\ pending' = pending \cup {RegisterCall(body)}
         /\ UNCHANGED <<userDb, farmDb, alertDb, parkDb, landDb, reportDb, healthDb, res>>

\* prisma.user.create on an email that is taken throws, and the catch block
\* answers.
InsertConflict == [code |-> 500, message |-> "Registration failed"]

\* register from prisma.user.create on; the email column is unique.
registerResume(call) ==
    LET body == call.body
        user == [email |-> body.email.v,
                 password |-> Hash(body.password.v),
                 role |-> RegisteredRole(body),
                 status |-> DefaultUserStatus,
                 services |-> StoredServices(body.services),
                 businessType |-> OrNull(body.businessType),
                 companyName |-> OrNull(body.companyName),
                 lastLoginAt |-> NoTime]
        id == Len(users) + 1
    IN
    /\ call \in pending
    /\ pending' = pending \ {call}
    /\ IF UserWithEmail(body.email.v) # {}
       THEN /\ res' = AuthReply("register", InsertConflict.code, InsertConflict.message,
                                <<>>, {}, Null, Null)
            /\ UNCHANGED <<userDb, farmDb, alertDb, parkDb, landDb, reportDb, healthDb>>
       ELSE /\ Len(users) < MaxUsers
            /\ users' = Append(users, user)
            /\ res' = AuthReply("register", 201, "User registered successfully", <<>>, {id},
                                ParsedUser(id, user), Token(id, user))
            /\ UNCHANGED <<activities, farmDb, alertDb, parkDb, landDb, reportDb, healthDb>>

\* Bodies with the same new email, one with another new email, one with the
\* email of each user there is and one without email.
RaceRegisterBodies ==
    { RegisterBody,
      [RegisterBody EXCEPT !.password = Str("hunter2")],
      [RegisterBody EXCEPT !.role = Str("ADMIN")],
      [RegisterBody EXCEPT !.email = Str("new2@kube.africa")],
      [RegisterBody EXCEPT !.email = Undef] }
    \cup { [RegisterBody EXCEPT !.email = Str(users[i].email)] : i \in Ids(users) }

InitRegRace ==
    /\ users = SubSeq(SeedUsers, 1, 1)
    /\ activities = <<>>
    /\ farms = <<>>
    /\ farmCreatedBy = <<>>
    /\ herds = <<>>
    /\ animals = <<>>
    /\ healthEvents = <<>>
    /\ alerts = <<>>
    /\ parks = <<>>
    /\ wildlife = <<>>
    /\ sightings = <<>>
    /\ patrols = <<>>
    /\ incidents = <<>>
    /\ landZones = <<>>
    /\ surveys = <<>>
    /\ changes = <<>>
    /\ reports = <<>>
    /\ reportPosted = <<>>
    /\ now = 400
    /\ res = NoResponse
    /\ pending = {}

RegisterReceive == \E body \in RaceRegisterBodies : registerReceive(body)

RegisterResume == \E call \in pending : registerResume(call)

NextRegRace ==
    \/ RegisterReceive
    \/ RegisterResume

SpecRegRace == InitRegRace /\ [][NextRegRace]_vars

\* C26: under any interleaving of concurrent register calls that use the same
\* email, at most one user row with that email exists afterwards, and every
\* call that did not create the row is answered with 400 'User already exists
\* with this email' rather than 500.
C26_SameEmailOneRowOthers400 ==
    /\ \A i, j \in Ids(users) : users[i].email = users[j].email => i = j
    /\ (res.handler = "register" /\ res.code # 201) =>
           /\ res.code = 400
           /\ res.code # 500

(***************************************************************************)
(* Writes by users who are not administrators: two farmers, the farm of    *)
(* the first and an alert on that farm.                                    *)
(***************************************************************************)
InitWrites ==
    /\ users = SeedUsers
    /\ activities = <<>>
    /\ farms = <<[ownerId |-> 2]>>
    /\ farmCreatedBy = <<2>>
    /\ herds = <<>>
    /\ animals = <<>>
    /\ healthEvents = <<>>
    /\ alerts = <<NewAlert("farm", 1)>>
    /\ parks = <<>>
    /\ wildlife = <<>>
    /\ sightings = <<>>
    /\ patrols = <<>>
    /\ incidents = <<>>
    /\ landZones = <<>>
    /\ surveys = <<>>
    /\ changes = <<>>
    /\ reports = <<>>
    /\ reportPosted = <<>>
    /\ now = 400
    /\ res = NoResponse
    /\ pending = {}

NextWrites ==
    \/ UpdateAlertStatus
    \/ AssignAlert
    \/ CreateHerd

SpecWrites == InitWrites /\ [][NextWrites]_vars

\* The requester of the step's response, as the handlers see them.
Caller == [id |-> res'.requester, role |-> users[res'.requester].role]

\* C27: a requester who is no administrator cannot change an alert that
\* getAlerts would not show them: updateAlertStatus and assignAlert leave
\* unchanged every alert that is neither assigned to the requester nor attached
\* to a farm the requester owns, and createHerd adds no herd to a farm the
\* requester does not own.
C27_NonAdminWritesOnlyVisibleRows ==
    [][ (/\ res'.handler \in {"updateAlertStatus", "assignAlert", "createHerd"}
         /\ Caller.role # "ADMIN") =>
            /\ \A a \in Ids(alerts) \ AlertsWhere(Caller) : alerts'[a] = alerts[a]
            /\ \A h \in Ids(herds') \ Ids(herds) : farms[herds'[h].farmId].ownerId = Caller.id
      ]_vars


(***************************************************************************)
(* Attribution: every user creates farms, parks and reports with bodies    *)
(* that also name some user in the attribution fields.                     *)
(***************************************************************************)
InitAttribution ==
    /\ users = SeedUsers
    /\ activities = <<>>
    /\ farms = <<>>
    /\ farmCreatedBy = <<>>
    /\ herds = <<>>
    /\ animals = <<>>
    /\ healthEvents = <<>>
    /\ alerts = <<>>
    /\ parks = <<>>
    /\ wildlife = <<>>
    /\ sightings = <<>>
    /\ patrols = <<>>
    /\ incidents = <<>>
    /\ landZones = <<>>
    /\ surveys = <<>>
    /\ changes = <<>>
    /\ reports = <<>>
    /\ reportPosted = <<>>
    /\ now = 0
    /\ res = NoResponse
    /\ pending = {}

\* The body with every attribution field set to the id k.
Claiming(body, k) ==
    [f \in DOMAIN body \cup AttributionFields |->
        IF f \in AttributionFields THEN Num(k) ELSE body[f]]

\* The bodies of the set, as posted and as posted with a claimed user id.
WithClaims(bodies) == bodies \cup { Claiming(b, k) : b \in bodies, k \in Ids(users) }

\* The three tables together hold at most MaxAttributed rows.
AttributionCap == Len(farms') + Len(parks') + Len(reports') <= MaxAttributed

AttributedCreateFarm ==
    \E u \in Requesters, body \in WithClaims({FarmBody, [FarmBody EXCEPT !.name = Undef]}),
       fail \in BOOLEAN : createFarm(u, body, fail) /\ AttributionCap

AttributedCreatePark ==
    \E u \in Requesters, body \in WithClaims({ParkBody, [ParkBody EXCEPT !.name = Undef]}),
       fail \in BOOLEAN : createPark(u, body, fail) /\ AttributionCap

AttributedGenerateReport ==
    \E u \in Requesters, body \in WithClaims({ReportBody, [ReportBody EXCEPT !.title = Undef]}),
       fail \in BOOLEAN : generateReport(u, body, fail) /\ AttributionCap

NextAttribution ==
    \/ AttributedCreateFarm
    \/ AttributedCreatePark
    \/ AttributedGenerateReport

SpecAttribution == InitAttribution /\ [][NextAttribution]_vars

\* C28: a row that createFarm, createPark or generateReport adds has the
\* requester of that call as its owner, manager or generator, whatever the
\* body of the call carries in an attribution field.
C28_NewRowBelongsToRequester ==
    [][ /\ \A f \in Ids(farms') \ Ids(farms) : farms'[f].ownerId = res'.requester
        /\ \A p \in Ids(parks') \ Ids(parks) : parks'[p].managerId = res'.requester
        /\ \A r \in Ids(reports') \ Ids(reports) : reports'[r].generatedById = res'.requester
      ]_vars

\* A farm of user 2, a park of user 3 and a report of user 2 exist, and the
\* last call was a successful create.
C28_Witness ==
    /\ res.code = 201
    /\ res.handler \in {"createFarm", "createPark", "generateReport"}
    /\ \E f \in Ids(farms) : farms[f].ownerId = 2
    /\ \E p \in Ids(parks) : parks[p].managerId = 3
    /\ \E r \in Ids(reports) : reports[r].generatedById = 2


\* C29: a user that register creates has the role of the request body,
\* ADMIN included, and FARMER when the body gives no role; the token of the
\* same response carries that role.
C29_RegisterStoresRequestedRole ==
    [][ (res'.handler = "register" /\ res'.code = 201) =>
            \A body \in RegisterBodies :
                register(body, FALSE) =>
                    LET asked == IF body.role = Undef THEN "FARMER" ELSE body.role.v
                    IN /\ users'[Len(users')].role = asked
                       /\ res'.token[1].role = asked
      ]_vars

\* A registration that asked for ADMIN succeeded.
C29_Witness ==
    /\ res.handler = "register"
    /\ res.code = 201
    /\ users[Len(users)].role = "ADMIN"
    /\ res.token[1].role = "ADMIN"


(***************************************************************************)
(* Coordinates: farms, parks and incidents are created with bodies whose   *)
(* latitude or longitude is absent, zero or another number.                *)
(***************************************************************************)
InitCoordinates ==
    /\ users = SeedUsers
    /\ activities = <<>>
    /\ farms = <<>>
    /\ farmCreatedBy = <<>>
    /\ herds = <<>>
    /\ animals = <<>>
    /\ healthEvents = <<>>
    /\ alerts = <<>>
    /\ parks = <<[managerId |-> 1]>>
    /\ wildlife = <<>>
    /\ sightings = <<>>
    /\ patrols = <<>>
    /\ incidents = <<>>
    /\ landZones = <<>>
    /\ surveys = <<>>
    /\ changes = <<>>
    /\ reports = <<>>
    /\ reportPosted = <<>>
    /\ now = 0
    /\ res = NoResponse
    /\ pending = {}

LocatedCreateFarm ==
    \E u \in Requesters, body \in FarmBodies, fail \in BOOLEAN : createFarm(u, body, fail)

LocatedCreatePark ==
    \E u \in Requesters, body \in ParkBodies, fail \in BOOLEAN : createPark(u, body, fail)

LocatedCreateIncident ==
    \E u \in Requesters, parkId \in Ids(parks), body \in IncidentBodies, fail \in BOOLEAN :
        createIncident(u, parkId, body, fail)

NextCoordinates ==
    \/ LocatedCreateFarm
    \/ LocatedCreatePark
    \/ LocatedCreateIncident

SpecCoordinates == InitCoordinates /\ [][NextCoordinates]_vars

\* C30: createFarm, createPark and createIncident answer 400 exactly when a
\* required field of the body is absent; a body with every required field,
\* latitude or longitude 0 included, is accepted and the row is created (the
\* store answering and the park of the incident existing).
C30_RejectedExactlyWhenFieldAbsent ==
    [][ /\ res'.handler = "createFarm" =>
               \A u \in Requesters, body \in FarmBodies :
                   createFarm(u, body, FALSE) =>
                       /\ (res'.code = 400) <=> Missing("createFarm", body)
                       /\ ~Missing("createFarm", body) => Len(farms') = Len(farms) + 1
        /\ res'.handler = "createPark" =>
               \A u \in Requesters, body \in ParkBodies :
                   createPark(u, body, FALSE) =>
                       /\ (res'.code = 400) <=> Missing("createPark", body)
                       /\ ~Missing("createPark", body) => Len(parks') = Len(parks) + 1
        /\ res'.handler = "createIncident" =>
               \A u \in Requesters, parkId \in Ids(parks), body \in IncidentBodies :
                   createIncident(u, parkId, body, FALSE) =>
                       /\ (res'.code = 400) <=> Missing("createIncident", body)
                       /\ ~Missing("createIncident", body) =>
                              Len(incidents') = Len(incidents) + 1
      ]_vars

====
